---- MODULE Spec2Model ----
(***************************************************************************)
(* Model of src/index.js (IMessageServer): the attributedBody text         *)
(* decoder, the phone / email handle normalizers, the AddressBook contact  *)
(* cache and the two resolvers built on it.                                *)
(*                                                                         *)
(* Representation.                                                         *)
(*   - A Buffer is a sequence of bytes (0..255), indexed from 0 through    *)
(*     At(buf, i).                                                         *)
(*   - A decoded text is a sequence of Unicode code points.                *)
(*   - A JavaScript value handed to the decoder is a record                *)
(*     [type |-> "buffer" | "string" | "null", val |-> sequence].          *)
(*   - A contact-side string (name, phone, email) is a sequence of         *)
(*     one-character strings.                                              *)
(*   - null is NullText (decoder side) or NULL (contact side), values no   *)
(*     string can be equal to.                                             *)
(***************************************************************************)
EXTENDS Integers, Sequences, FiniteSets, TLC

VARIABLES
    op,         \* how far the operation under way has got
    layout,     \* how the attributedBody of msg was laid out (ghost)
    msg,        \* the message row handed to getMessageText
    decoded,    \* extractTextFromAttributedBody(msg.attributedBody), once run
    text,       \* getMessageText(msg), once run
    raw,        \* the raw handle string handed to a normalizer
    rawKind,    \* which normalizer raw is for: "phone" or "email"
    once,       \* the normalizer applied to raw
    twice,      \* the normalizer applied to once
    addressBook,        \* the AddressBook sources on disk: a sequence of snapshots
    cacheInitialized,   \* this._cacheInitialized
    contactCache,       \* this._contactCache: Map handle -> contact, or null
    nameToHandles,      \* this._nameToHandles: Map token -> Set of handles, or null
    call,               \* the last resolver call: function, argument, result
    builds,             \* how many times buildContactCache has run (ghost)
    storeAvailable,     \* whether chat.db can be opened right now
    request,            \* the last tool invocation: name, arguments, what it did (ghost)
    response,           \* what the CallTool handler returned for it
    sent                \* the osascript runs so far, oldest first

decodeVars == <<layout, msg, decoded, text>>
normVars == <<raw, rawKind, once, twice>>
cacheVars == <<cacheInitialized, contactCache, nameToHandles, builds>>
contactVars == <<addressBook, cacheVars, call>>
toolVars == <<storeAvailable, request, response, sent>>
vars == <<op, decodeVars, normVars, contactVars, toolVars>>

----------------------------------------------------------------------------
(* Bounds of the model *)

\* header lengths 0..MaxHeader are tried between the marker and the delimiter
MaxHeader == 13
\* one-byte payload lengths 0..MaxSmallLen are swept exhaustively
MaxSmallLen == 3

----------------------------------------------------------------------------
(* Generic helpers *)

Min(a, b) == IF a < b THEN a ELSE b

\* n copies of x
Fill(n, x) == [i \in 1..n |-> x]

\* the absent text (JavaScript null) on the decoder side
NullText == <<-1>>

JsNull == [type |-> "null", val |-> <<>>]
JsBuffer(bytes) == [type |-> "buffer", val |-> bytes]
JsString(cps) == [type |-> "string", val |-> cps]

\* JavaScript truthiness of a value: null and "" are falsy, a Buffer is an
\* object and always truthy, even when empty
Truthy(v) ==
    CASE v.type = "null"   -> FALSE
      [] v.type = "string" -> v.val # <<>>
      [] OTHER             -> TRUE

----------------------------------------------------------------------------
(* Buffer primitives *)

\* buf[i], zero-based
At(buf, i) == buf[i + 1]

\* buf.slice(from, to) for 0 <= from <= to <= buf.length
Slice(buf, from, to) == SubSeq(buf, from + 1, to)

\* every offset at which needle occurs in buf
Occurrences(buf, needle) ==
    { i \in 0..(Len(buf) - Len(needle)) :
        \A k \in 0..(Len(needle) - 1) : At(buf, i + k) = At(needle, k) }

\* a mutant of IndexOf: the last occurrence instead of the first
LastIndexOf(buf, needle) ==
    LET occ == Occurrences(buf, needle)
    IN  IF occ = {} THEN -1 ELSE CHOOSE i \in occ : \A j \in occ : j <= i

\* buf.indexOf(needle): offset of the first occurrence, -1 when there is none
IndexOf(buf, needle) ==
    LET occ == Occurrences(buf, needle)
    IN  IF occ = {} THEN -1 ELSE CHOOSE i \in occ : \A j \in occ : i <= j

\* U+FFFD, what the UTF-8 decoder substitutes for a malformed sequence
Replacement == 65533

IsCont(buf, i, lo, hi) == i <= Len(buf) /\ buf[i] >= lo /\ buf[i] <= hi

\* lower and upper bound of the second byte of a 3- or 4-byte sequence
SecondLo(b) == IF b = 224 THEN 160 ELSE IF b = 240 THEN 144 ELSE 128
SecondHi(b) == IF b = 237 THEN 159 ELSE IF b = 244 THEN 143 ELSE 191

\* the index of the first byte at or after i that is not ASCII, Len(buf) + 1
\* when every byte from i on is ASCII
NextNonAscii(buf, i) ==
    LET high == { k \in i..Len(buf) : buf[k] >= 128 }
    IN  IF high = {} THEN Len(buf) + 1 ELSE CHOOSE k \in high : \A j \in high : k <= j

\* the character that starts at the non-ASCII byte buf[i]: its code point and
\* the number of bytes it takes (a malformed sequence: U+FFFD for its maximal
\* well-formed prefix)
CharAt(buf, i) ==
    LET b == buf[i] IN
      CASE b >= 194 /\ b <= 223 ->
             IF IsCont(buf, i + 1, 128, 191)
             THEN [cp |-> (b - 192) * 64 + (buf[i + 1] - 128), size |-> 2]
             ELSE [cp |-> Replacement, size |-> 1]
        [] b >= 224 /\ b <= 239 ->
             IF ~IsCont(buf, i + 1, SecondLo(b), SecondHi(b))
             THEN [cp |-> Replacement, size |-> 1]
             ELSE IF ~IsCont(buf, i + 2, 128, 191)
             THEN [cp |-> Replacement, size |-> 2]
             ELSE [cp |-> (b - 224) * 4096 + (buf[i + 1] - 128) * 64
                          + (buf[i + 2] - 128),
                   size |-> 3]
        [] b >= 240 /\ b <= 244 ->
             IF ~IsCont(buf, i + 1, SecondLo(b), SecondHi(b))
             THEN [cp |-> Replacement, size |-> 1]
             ELSE IF ~IsCont(buf, i + 2, 128, 191)
             THEN [cp |-> Replacement, size |-> 2]
             ELSE IF ~IsCont(buf, i + 3, 128, 191)
             THEN [cp |-> Replacement, size |-> 3]
             ELSE [cp |-> (b - 240) * 262144 + (buf[i + 1] - 128) * 4096
                          + (buf[i + 2] - 128) * 64 + (buf[i + 3] - 128),
                   size |-> 4]
        [] OTHER -> [cp |-> Replacement, size |-> 1]

\* the decoding of buf from index i on: a run of ASCII bytes is one code
\* point per byte, then the character at the first non-ASCII byte, and so on
RECURSIVE Utf8From(_, _)
Utf8From(buf, i) ==
    LET k == NextNonAscii(buf, i) IN
    IF k > Len(buf) THEN SubSeq(buf, i, Len(buf))
    ELSE LET c == CharAt(buf, k)
         IN  SubSeq(buf, i, k - 1) \o <<c.cp>> \o Utf8From(buf, k + c.size)

\* buf.toString('utf-8'): the code points of the UTF-8 decoding of buf
Utf8ToString(buf) == Utf8From(buf, 1)

----------------------------------------------------------------------------
(* extractTextFromAttributedBody *)

\* Buffer.from('NSString')
marker == <<78, 83, 83, 116, 114, 105, 110, 103>>

\* 0x2b ('+'), the byte that precedes the length
Delimiter == 43
\* the delimiter is looked for in the SearchWindow bytes after the marker
SearchWindow == 12
\* first length byte announcing a 2-byte length
Tag16 == 129
\* first length byte announcing a 4-byte length
Tag32 == 130

\* the while loop: the first offset in pos..searchEnd-1 holding the
\* delimiter, searchEnd when there is none (pos itself when pos >= searchEnd)
ScanForDelimiter(buf, pos) ==
    LET searchEnd == Min(pos + SearchWindow, Len(buf))
        hits == { p \in pos..(searchEnd - 1) : At(buf, p) = Delimiter }
    IN  IF hits # {} THEN CHOOSE p \in hits : \A q \in hits : p <= q
        ELSE IF pos < searchEnd THEN searchEnd ELSE pos

\* (a << 24) | (b << 16) | (c << 8) | d on bytes, as the signed 32-bit
\* integer JavaScript's bitwise operators produce
Int32Of(a, b, c, d) ==
    (IF a >= 128 THEN a - 256 ELSE a) * 16777216 + b * 65536 + c * 256 + d

\* a mutant of ReadLength: the multi-byte lengths are read little-endian
ReadLengthLittleEndian(buf, pos) ==
    LET first == At(buf, pos)
        p == pos + 1
    IN  IF first = Tag16 /\ p + 2 <= Len(buf)
        THEN [textLen |-> At(buf, p + 1) * 256 + At(buf, p), pos |-> p + 2]
        ELSE IF first = Tag32 /\ p + 4 <= Len(buf)
        THEN [textLen |-> Int32Of(At(buf, p + 3), At(buf, p + 2),
                                  At(buf, p + 1), At(buf, p)),
              pos |-> p + 4]
        ELSE [textLen |-> first, pos |-> p]

\* a mutant of ReadLength: the length byte is skipped twice
ReadLengthOffByOne(buf, pos) ==
    LET first == At(buf, pos)
        p == pos + 1
    IN  IF first = Tag16 /\ p + 2 <= Len(buf)
        THEN [textLen |-> At(buf, p) * 256 + At(buf, p + 1), pos |-> p + 2]
        ELSE IF first = Tag32 /\ p + 4 <= Len(buf)
        THEN [textLen |-> Int32Of(At(buf, p), At(buf, p + 1),
                                  At(buf, p + 2), At(buf, p + 3)),
              pos |-> p + 4]
        ELSE [textLen |-> first, pos |-> p + 1]

\* the length field at offset pos < buf.length: the decoded length and the
\* offset of the byte after the field
ReadLength(buf, pos) ==
    LET first == At(buf, pos)
        p == pos + 1
    IN  IF first = Tag16 /\ p + 2 <= Len(buf)
        THEN [textLen |-> At(buf, p) * 256 + At(buf, p + 1), pos |-> p + 2]
        ELSE IF first = Tag32 /\ p + 4 <= Len(buf)
        THEN [textLen |-> Int32Of(At(buf, p), At(buf, p + 1),
                                  At(buf, p + 2), At(buf, p + 3)),
              pos |-> p + 4]
        ELSE [textLen |-> first, pos |-> p]

\* a mutant of DecodeBytes: the bytes that remain are not counted, and
\* slice() returns the ones there are
DecodeBytesClamps(buf) ==
    LET idx == IndexOf(buf, marker) IN
    IF idx = -1 THEN NullText
    ELSE
      LET pos == ScanForDelimiter(buf, idx + Len(marker)) IN
      IF pos >= Len(buf) \/ At(buf, pos) # Delimiter THEN NullText
      ELSE IF pos + 1 >= Len(buf) THEN NullText
      ELSE
        LET field == ReadLength(buf, pos + 1) IN
        IF field.textLen <= 0 THEN NullText
        ELSE Utf8ToString(Slice(buf, Min(field.pos, Len(buf)),
                                Min(field.pos + field.textLen, Len(buf))))

\* the decoder on the bytes of a Buffer
DecodeBytes(buf) ==
    LET idx == IndexOf(buf, marker) IN
    IF idx = -1 THEN NullText
    ELSE
      LET pos == ScanForDelimiter(buf, idx + Len(marker)) IN
      IF pos >= Len(buf) \/ At(buf, pos) # Delimiter THEN NullText
      ELSE IF pos + 1 >= Len(buf) THEN NullText
      ELSE
        LET field == ReadLength(buf, pos + 1) IN
        IF field.textLen <= 0 \/ field.textLen > Len(buf) - field.pos
        THEN NullText
        ELSE Utf8ToString(Slice(buf, field.pos, field.pos + field.textLen))

extractTextFromAttributedBody(v) ==
    IF v.type # "buffer" THEN NullText ELSE DecodeBytes(v.val)

----------------------------------------------------------------------------
(* getMessageText *)

\* a mutant of getMessageText: the decoder is preferred over the text column
getMessageTextBodyFirst(m) ==
    IF Truthy(m.attributedBody)
    THEN extractTextFromAttributedBody(m.attributedBody)
    ELSE IF Truthy(m.text) THEN m.text.val
    ELSE NullText

getMessageText(m) ==
    IF Truthy(m.text) THEN m.text.val
    ELSE IF Truthy(m.attributedBody)
    THEN extractTextFromAttributedBody(m.attributedBody)
    ELSE NullText

----------------------------------------------------------------------------
(* Strings of the contact side: sequences of one-character strings *)

\* the absent string (JavaScript null) on the contact side
NULL == <<"null">>

\* !x for a string or null
Falsy(x) == x = NULL \/ x = <<>>

Digits == { "0", "1", "2", "3", "4", "5", "6", "7", "8", "9" }

UpperCase == <<"A", "B", "C", "D", "E", "F", "G", "H", "I", "J", "K", "L", "M", "N", "O", "P", "Q", "R", "S", "T", "U", "V", "W", "X", "Y", "Z">>
LowerCase == <<"a", "b", "c", "d", "e", "f", "g", "h", "i", "j", "k", "l", "m", "n", "o", "p", "q", "r", "s", "t", "u", "v", "w", "x", "y", "z">>

\* the characters String.prototype.trim removes (those the model uses)
WhiteSpace == { " ", "\t", "\n", "\r" }

UpperSet == { UpperCase[i] : i \in 1..Len(UpperCase) }

\* the lower-case letter of each upper-case letter
LowerOf == [c \in UpperSet |-> LowerCase[CHOOSE i \in 1..Len(UpperCase) : UpperCase[i] = c]]

LowerChar(c) == IF c \in UpperSet THEN LowerOf[c] ELSE c

\* s.toLowerCase()
ToLowerCase(s) == [i \in 1..Len(s) |-> LowerChar(s[i])]

\* s.trim(): s without its leading and trailing white space
Trim(s) ==
    LET inked == { i \in 1..Len(s) : s[i] \notin WhiteSpace }
    IN  IF inked = {} THEN <<>>
        ELSE SubSeq(s, CHOOSE i \in inked : \A j \in inked : i <= j,
                       CHOOSE i \in inked : \A j \in inked : j <= i)

\* s.includes(sub)
Includes(s, sub) ==
    \E i \in 0..(Len(s) - Len(sub)) : SubSeq(s, i + 1, i + Len(sub)) = sub

IsDigit(c) == c \in Digits

\* raw.replace(/\D/g, '')
StripNonDigits(s) == SelectSeq(s, IsDigit)

----------------------------------------------------------------------------
(* normalizePhoneNumber and the e-mail normalization *)

\* the least number of digits of a phone number
MinPhoneDigits == 7
\* the number of digits of a US number with its country code
UsWithCountryCode == 11

\* a mutant of normalizePhoneNumber: a leading "1" is stripped from every
\* number of 11 digits or more
normalizePhoneNumberStripLong(r) ==
    IF Falsy(r) THEN NULL
    ELSE LET digits == StripNonDigits(r) IN
         IF Len(digits) < MinPhoneDigits THEN NULL
         ELSE IF Len(digits) >= UsWithCountryCode /\ digits[1] = "1"
         THEN Tail(digits)
         ELSE digits

\* a mutant of normalizePhoneNumber: seven digits are too few
normalizePhoneNumberAtLeast8(r) ==
    IF Falsy(r) THEN NULL
    ELSE LET digits == StripNonDigits(r) IN
         IF Len(digits) <= MinPhoneDigits THEN NULL
         ELSE IF Len(digits) = UsWithCountryCode /\ digits[1] = "1"
         THEN Tail(digits)
         ELSE digits

\* raw is a string or null here (typeof raw !== 'string' covers the rest)
normalizePhoneNumber(r) ==
    IF Falsy(r) THEN NULL
    ELSE LET digits == StripNonDigits(r) IN
         IF Len(digits) < MinPhoneDigits THEN NULL
         ELSE IF Len(digits) = UsWithCountryCode /\ digits[1] = "1"
         THEN Tail(digits)
         ELSE digits

\* the e-mail normalization, s a string: s.toLowerCase().trim()
normalizeEmail(s) == Trim(ToLowerCase(s))

----------------------------------------------------------------------------
(* Map and Set: sequences in insertion order, as JavaScript iterates them *)

MapHas(m, k) == \E i \in 1..Len(m) : m[i].key = k

\* m.get(k) for a key the map has
MapGet(m, k) == m[CHOOSE i \in 1..Len(m) : m[i].key = k].value

\* m.set(k, v): an existing key keeps its place
MapSet(m, k, v) ==
    IF MapHas(m, k)
    THEN [i \in 1..Len(m) |-> IF m[i].key = k THEN [key |-> k, value |-> v] ELSE m[i]]
    ELSE Append(m, [key |-> k, value |-> v])

MapKeys(m) == { m[i].key : i \in 1..Len(m) }

SetHas(set, x) == \E i \in 1..Len(set) : set[i] = x

\* set.add(x)
SetAdd(set, x) == IF SetHas(set, x) THEN set ELSE Append(set, x)

\* [...new Set(array)]: the array without its repeated elements
RECURSIVE Dedupe(_)
Dedupe(array) ==
    IF array = <<>> THEN <<>>
    ELSE LET front == Dedupe(SubSeq(array, 1, Len(array) - 1))
             x == array[Len(array)]
         IN  IF SetHas(front, x) THEN front ELSE Append(front, x)

\* the map, while the cache is not built
NullMap == <<"null">>

----------------------------------------------------------------------------
(* buildDisplayName, indexContactName, buildContactCache *)

\* (x || '')
OrEmpty(x) == IF Falsy(x) THEN <<>> ELSE x

buildDisplayName(row) ==
    LET first == Trim(OrEmpty(row.ZFIRSTNAME))
        last == Trim(OrEmpty(row.ZLASTNAME))
        org == Trim(OrEmpty(row.ZORGANIZATION))
        nick == Trim(OrEmpty(row.ZNICKNAME))
    IN  IF first # <<>> /\ last # <<>> THEN first \o <<" ">> \o last
        ELSE IF first # <<>> THEN first
        ELSE IF nick # <<>> THEN nick
        ELSE IF last # <<>> THEN last
        ELSE IF org # <<>> THEN org
        ELSE NULL

\* if (!map.has(token)) map.set(token, new Set()); map.get(token).add(id)
AddToken(map, token, id) ==
    MapSet(map, token, SetAdd(IF MapHas(map, token) THEN MapGet(map, token) ELSE <<>>, id))

indexContactName(map, displayName, normalizedId, row) ==
    LET lowerDisplay == ToLowerCase(displayName)
        first == ToLowerCase(Trim(OrEmpty(row.ZFIRSTNAME)))
        nick == ToLowerCase(Trim(OrEmpty(row.ZNICKNAME)))
        org == ToLowerCase(Trim(OrEmpty(row.ZORGANIZATION)))
        m1 == AddToken(map, lowerDisplay, normalizedId)
        m2 == IF first # <<>> THEN AddToken(m1, first, normalizedId) ELSE m1
        m3 == IF nick # <<>> THEN AddToken(m2, nick, normalizedId) ELSE m2
    IN  IF org # <<>> THEN AddToken(m3, org, normalizedId) ELSE m3

\* the contact stored for a row
ContactOf(row, displayName) ==
    [displayName |-> displayName,
     firstName |-> OrEmpty(row.ZFIRSTNAME),
     lastName |-> OrEmpty(row.ZLASTNAME),
     organization |-> OrEmpty(row.ZORGANIZATION),
     nickname |-> OrEmpty(row.ZNICKNAME)]

\* a mutant of EnterRow: the name is indexed, the contact is not stored
EnterRowNamesOnly(idx, row, normalizedId) ==
    LET displayName == buildDisplayName(row) IN
    IF displayName = NULL THEN idx
    ELSE [handleToContact |-> idx.handleToContact,
          nameToHandles |->
            indexContactName(idx.nameToHandles, displayName, normalizedId, row)]

\* a mutant of EnterRow: the contact a handle already has is kept
EnterRowFirstWins(idx, row, normalizedId) ==
    LET displayName == buildDisplayName(row) IN
    IF displayName = NULL THEN idx
    ELSE [handleToContact |->
            IF MapHas(idx.handleToContact, normalizedId) THEN idx.handleToContact
            ELSE MapSet(idx.handleToContact, normalizedId, ContactOf(row, displayName)),
          nameToHandles |->
            indexContactName(idx.nameToHandles, displayName, normalizedId, row)]

\* the two maps with a row entered under the handle normalizedId
EnterRow(idx, row, normalizedId) ==
    LET displayName == buildDisplayName(row) IN
    IF displayName = NULL THEN idx
    ELSE [handleToContact |->
            MapSet(idx.handleToContact, normalizedId, ContactOf(row, displayName)),
          nameToHandles |->
            indexContactName(idx.nameToHandles, displayName, normalizedId, row)]

\* a mutant of PhoneRow: the country code is kept in the key
PhoneRowKeepsCountryCode(idx, row) ==
    LET normalized == IF Falsy(row.ZFULLNUMBER) THEN NULL
                      ELSE StripNonDigits(row.ZFULLNUMBER)
    IN  IF Falsy(normalized) THEN idx ELSE EnterRow(idx, row, normalized)

\* the body of the loop over phoneRows
PhoneRow(idx, row) ==
    LET normalized == normalizePhoneNumber(row.ZFULLNUMBER)
    IN  IF Falsy(normalized) THEN idx ELSE EnterRow(idx, row, normalized)

\* the body of the loop over emailRows
EmailRow(idx, row) ==
    IF Falsy(row.ZADDRESS) THEN idx
    ELSE EnterRow(idx, row, normalizeEmail(row.ZADDRESS))

RECURSIVE PhoneRows(_, _)
PhoneRows(idx, rows) ==
    IF rows = <<>> THEN idx ELSE PhoneRows(PhoneRow(idx, Head(rows)), Tail(rows))

RECURSIVE EmailRows(_, _)
EmailRows(idx, rows) ==
    IF rows = <<>> THEN idx ELSE EmailRows(EmailRow(idx, Head(rows)), Tail(rows))

\* one pass of the loop over dbPaths: a database that cannot be opened is
\* skipped; a query that throws ends the pass, keeping what was entered
Snapshot(idx, db) ==
    IF ~db.opens THEN idx
    ELSE IF ~db.phoneQueryOk THEN idx
    ELSE LET afterPhones == PhoneRows(idx, db.phoneRows)
         IN  IF ~db.emailQueryOk THEN afterPhones
             ELSE EmailRows(afterPhones, db.emailRows)

RECURSIVE Snapshots(_, _)
Snapshots(idx, dbs) ==
    IF dbs = <<>> THEN idx ELSE Snapshots(Snapshot(idx, Head(dbs)), Tail(dbs))

buildContactCache(dbs) ==
    LET empty == [handleToContact |-> <<>>, nameToHandles |-> <<>>]
    IN  IF Len(dbs) = 0 THEN empty ELSE Snapshots(empty, dbs)

\* buildContactCache throws: db.close() in the finally block fails for a
\* database that was opened, and nothing around it catches the exception
buildContactCacheThrows(dbs) ==
    \E i \in 1..Len(dbs) : dbs[i].opens /\ ~dbs[i].closes

\* the three cache fields and the number of builds so far, as one record
CacheOf(initialized, handleToContact, names, n) ==
    [initialized |-> initialized, handleToContact |-> handleToContact,
     nameToHandles |-> names, builds |-> n]

\* a mutant of ensureContactCache: the cache is built on every call
ensureContactCacheRebuilds(cache, dbs) ==
    IF buildContactCacheThrows(dbs)
    THEN CacheOf(TRUE, <<>>, <<>>, cache.builds + 1)
    ELSE LET built == buildContactCache(dbs)
         IN  CacheOf(TRUE, built.handleToContact, built.nameToHandles,
                     cache.builds + 1)

\* a mutant of ensureContactCache: when the build throws, the rows read
\* before are kept
ensureContactCacheKeepsRows(cache, dbs) ==
    IF cache.initialized THEN cache
    ELSE LET built == buildContactCache(dbs)
         IN  CacheOf(TRUE, built.handleToContact, built.nameToHandles,
                     cache.builds + 1)

\* the cache after ensureContactCache(): kept when it is initialized, built
\* from the address book otherwise, empty when the build throws
ensureContactCache(cache, dbs) ==
    IF cache.initialized THEN cache
    ELSE IF buildContactCacheThrows(dbs)
    THEN CacheOf(TRUE, <<>>, <<>>, cache.builds + 1)
    ELSE LET built == buildContactCache(dbs)
         IN  CacheOf(TRUE, built.handleToContact, built.nameToHandles,
                     cache.builds + 1)

----------------------------------------------------------------------------
(* resolveHandleToName, resolveNameToHandleIds (after ensureContactCache) *)

Unknown == <<"U", "n", "k", "n", "o", "w", "n">>

\* a mutant of resolveHandleToName: an unresolved handle comes back normalized
resolveHandleToNameNormalized(handleToContact, handleId) ==
    IF Includes(handleId, <<"@">>)
    THEN LET key == normalizeEmail(handleId)
         IN  IF MapHas(handleToContact, key)
             THEN MapGet(handleToContact, key).displayName ELSE key
    ELSE LET normalized == normalizePhoneNumber(handleId)
         IN  IF ~Falsy(normalized)
             THEN IF MapHas(handleToContact, normalized)
                  THEN MapGet(handleToContact, normalized).displayName
                  ELSE normalized
             ELSE handleId

\* for a handleId that is not falsy
resolveHandleToName(handleToContact, handleId) ==
    IF Includes(handleId, <<"@">>)
    THEN LET key == normalizeEmail(handleId)
         IN  IF MapHas(handleToContact, key)
             THEN MapGet(handleToContact, key).displayName ELSE handleId
    ELSE LET normalized == normalizePhoneNumber(handleId)
         IN  IF ~Falsy(normalized)
             THEN IF MapHas(handleToContact, normalized)
                  THEN MapGet(handleToContact, normalized).displayName
                  ELSE handleId
             ELSE handleId

\* the handle sets of the entries from i on whose token contains lowerName or
\* is contained in it, one after the other
RECURSIVE SubstringMatches(_, _, _)
SubstringMatches(names, lowerName, i) ==
    IF i > Len(names) THEN <<>>
    ELSE (IF Includes(names[i].key, lowerName) \/ Includes(lowerName, names[i].key)
          THEN names[i].value ELSE <<>>)
         \o SubstringMatches(names, lowerName, i + 1)

\* a mutant of SubstringMatches: only tokens that contain the query match
RECURSIVE ContainingMatches(_, _, _)
ContainingMatches(names, lowerName, i) ==
    IF i > Len(names) THEN <<>>
    ELSE (IF Includes(names[i].key, lowerName) THEN names[i].value ELSE <<>>)
         \o ContainingMatches(names, lowerName, i + 1)

\* a mutant of resolveNameToHandleIds: no exact match first
resolveNameToHandleIdsNoExact(names, name) ==
    Dedupe(SubstringMatches(names, Trim(ToLowerCase(name)), 1))

\* a mutant of resolveNameToHandleIds: only tokens containing the query
resolveNameToHandleIdsOneWay(names, name) ==
    LET lowerName == Trim(ToLowerCase(name))
    IN  IF MapHas(names, lowerName) THEN MapGet(names, lowerName)
        ELSE Dedupe(ContainingMatches(names, lowerName, 1))

\* for a name that is not falsy
resolveNameToHandleIds(names, name) ==
    LET lowerName == Trim(ToLowerCase(name))
    IN  IF MapHas(names, lowerName) THEN MapGet(names, lowerName)
        ELSE Dedupe(SubstringMatches(names, lowerName, 1))

----------------------------------------------------------------------------
(* Inputs of the decoder: attributedBody values laid out as                *)
(*   pre + [marker] + header + [delimiter] + field + payload + trail       *)

\* the bytes of a layout
Assemble(l) ==
    l.pre \o (IF l.hasMarker THEN marker ELSE <<>>) \o l.header
          \o (IF l.hasDelim THEN <<Delimiter>> ELSE <<>>)
          \o l.field \o l.payload \o l.trail

\* the attributedBody column of a layout: a Buffer, a string holding the same
\* bytes as characters, or NULL
BodyOf(l) ==
    CASE l.kind = "buffer" -> JsBuffer(Assemble(l))
      [] l.kind = "string" -> JsString(Assemble(l))
      [] OTHER             -> JsNull

\* the type header bytes observed between the marker and the delimiter
ObservedHeader == <<1, 148, 132, 1>>

\* "Hello world"
HelloWorld == <<72, 101, 108, 108, 111, 32, 119, 111, 114, 108, 100>>

\* headers without a delimiter, of every length up to MaxHeader, and headers
\* that hold a delimiter byte of their own
Headers ==
    { Fill(n, 1) : n \in 0..MaxHeader }
      \cup { ObservedHeader, <<Delimiter>>, <<1, Delimiter, 2>> }

\* what may precede the marker: nothing, unrelated bytes, a marker cut short,
\* an earlier marker with no delimiter in its window, an earlier marker with
\* a payload of its own ("Z")
Pres ==
    { <<>>, <<4, 11>>, SubSeq(marker, 1, 7),
      marker \o Fill(14, 1),
      marker \o <<1, Delimiter, 1, 90>> }

Trails == { <<>>, <<134, 132>> }

\* a payload of n bytes: letters, or bytes that are not ASCII text
LetterPayload(n) == [i \in 1..n |-> 97 + (i % 26)]
SmallPayloads(n) ==
    { LetterPayload(n), Fill(n, Delimiter) }
      \cup (IF n = 1 THEN { <<255>> } ELSE {})
      \cup (IF n = 2 THEN { <<195, 169>> } ELSE {})
      \cup (IF n = 3 THEN { <<226, 130, 172>> } ELSE {})
      \cup (IF n = 11 THEN { HelloWorld } ELSE {})

\* the payload lengths of the one-byte form that are tried
OneByteLens == (0..MaxSmallLen) \cup { 11, 127, 128 }

\* the payload lengths of the multi-byte forms that are tried
TwoByteLens == { 0, 1, 2, 255, 256, 257, 65535 }
FourByteLens == { 0, 1, 256, 65536 }

\* the length fields of the three forms for a length n
OneByteField(n) == <<n>>
TwoByteField(n) == <<Tag16, n \div 256, n % 256>>
FourByteField(n) ==
    <<Tag32, n \div 16777216, (n \div 65536) % 256, (n \div 256) % 256, n % 256>>

Layout(kind, pre, hasMarker, header, hasDelim, form, declared, field, payload, trail) ==
    [kind |-> kind, pre |-> pre, hasMarker |-> hasMarker, header |-> header,
     hasDelim |-> hasDelim, form |-> form, declared |-> declared,
     field |-> field, payload |-> payload, trail |-> trail]

\* one-byte form, the header swept over Headers
HeaderSweep ==
    UNION { { Layout("buffer", <<>>, TRUE, h, d, "one", n, OneByteField(n), p, t) :
                h \in Headers, d \in BOOLEAN, p \in SmallPayloads(n), t \in Trails } :
            n \in OneByteLens }

\* the marker absent, cut short, repeated or preceded by other bytes
MarkerSweep ==
    UNION { { Layout("buffer", pre, m, h, TRUE, "one", n, OneByteField(n), p, t) :
                pre \in Pres, m \in BOOLEAN, h \in { <<>>, ObservedHeader },
                p \in SmallPayloads(n), t \in Trails } :
            n \in 0..MaxSmallLen }

\* the payloads tried behind a multi-byte field declaring n bytes: exactly n
\* bytes, or one byte fewer
LongPayloads(n) ==
    { LetterPayload(n) } \cup (IF n > 0 THEN { LetterPayload(n - 1) } ELSE {})

MultiByteSweep ==
    UNION { { Layout("buffer", pre, TRUE, h, TRUE, "two", n, TwoByteField(n), p, t) :
                pre \in { <<>>, <<4, 11>> }, h \in { <<>>, ObservedHeader },
                p \in LongPayloads(n), t \in Trails } :
            n \in TwoByteLens }
    \cup
    UNION { { Layout("buffer", pre, TRUE, h, TRUE, "four", n, FourByteField(n), p, t) :
                pre \in { <<>>, <<4, 11>> }, h \in { <<>>, ObservedHeader },
                p \in LongPayloads(n), t \in Trails } :
            n \in FourByteLens }

\* length fields that are cut short, carry an unknown tag or a length with
\* the sign bit set, each followed by 0..MaxSmallLen payload bytes
OddFields ==
    { <<>>, <<Tag16>>, <<Tag16, 0>>, <<Tag32>>, <<Tag32, 0, 0, 1>>,
      <<131, 0, 1>>, <<255>>, <<Tag32, 128, 0, 0, 1>>, <<Tag32, 255, 255, 255, 255>> }

OddSweep ==
    { Layout("buffer", <<>>, TRUE, ObservedHeader, TRUE, "odd", -1, f, p, <<>>) :
        f \in OddFields, p \in { LetterPayload(k) : k \in 0..MaxSmallLen } }

\* first length bytes above the two tags, each followed by as many payload
\* bytes as its value, or one byte fewer
UnknownTags == { 131, 255 }

UnknownTagSweep ==
    UNION { { Layout("buffer", <<>>, TRUE, ObservedHeader, TRUE, "unknown", n, <<n>>, p, t) :
                p \in LongPayloads(n), t \in Trails } :
            n \in UnknownTags }

\* attributedBody values that are no Buffer: NULL, and a string holding the
\* very characters of a well-formed body
NonBuffers ==
    { Layout(k, <<>>, TRUE, ObservedHeader, TRUE, "one", n, OneByteField(n),
             LetterPayload(n), <<>>) :
        k \in { "string", "null" }, n \in 0..MaxSmallLen }

Layouts ==
    HeaderSweep \cup MarkerSweep \cup MultiByteSweep \cup OddSweep
      \cup UnknownTagSweep \cup NonBuffers

\* the text column of a row: NULL, the empty string, "Hi"
TextColumns == { JsNull, JsString(<<>>), JsString(<<72, 105>>) }

\* the layouts that are combined with every text column
RowLayouts ==
    { l \in Layouts :
        /\ l.pre = <<>> /\ l.trail = <<>> /\ l.hasMarker /\ l.hasDelim
        /\ l.header = ObservedHeader /\ l.declared <= 11 }

----------------------------------------------------------------------------
(* The decoder as a state machine: a row is read, then either the decoder  *)
(* is applied to its attributedBody or getMessageText is applied to it.    *)

\* no row is being decoded
DecodeIdle ==
    /\ layout = Layout("null", <<>>, FALSE, <<>>, FALSE, "none", -1, <<>>, <<>>, <<>>)
    /\ msg = [text |-> JsNull, attributedBody |-> JsNull]
    /\ decoded = NullText
    /\ text = NullText

\* no handle is being normalized
NormIdle ==
    /\ raw = NULL /\ rawKind = "none" /\ once = NULL /\ twice = NULL

\* no resolver has been called and there is no address book
ContactIdle ==
    /\ addressBook = <<>>
    /\ cacheInitialized = FALSE
    /\ contactCache = NullMap
    /\ nameToHandles = NullMap
    /\ builds = 0
    /\ call = [fn |-> "none", arg |-> NULL, result |-> NULL]

\* no tool has been invoked
NoArgs == [target |-> NULL, confirm |-> "missing"]
NoRequest ==
    [name |-> "none", args |-> NoArgs, opened |-> "no", resolverCalls |-> 0,
     lookups |-> 0]
NoResponse == [isError |-> FALSE, text |-> <<>>, lines |-> <<>>, target |-> NULL]

ToolIdle ==
    /\ storeAvailable = TRUE
    /\ request = NoRequest
    /\ response = NoResponse
    /\ sent = <<>>

InitDecode ==
    /\ op = "row"
    /\ layout \in Layouts
    /\ \E t \in TextColumns :
         /\ (t # JsNull => layout \in RowLayouts)
         /\ msg = [text |-> t, attributedBody |-> BodyOf(layout)]
    /\ decoded = NullText
    /\ text = NullText
    /\ NormIdle
    /\ ContactIdle
    /\ ToolIdle

ExtractText ==
    /\ op = "row"
    /\ decoded' = extractTextFromAttributedBody(msg.attributedBody)
    /\ op' = "extracted"
    /\ UNCHANGED <<layout, msg, text, normVars, contactVars, toolVars>>

GetMessageText ==
    /\ op = "row"
    /\ text' = getMessageText(msg)
    /\ op' = "resolved"
    /\ UNCHANGED <<layout, msg, decoded, normVars, contactVars, toolVars>>

NextDecode == ExtractText \/ GetMessageText

SpecDecode == InitDecode /\ [][NextDecode]_vars

----------------------------------------------------------------------------
(* The normalizers as a state machine: a raw handle is normalized, and the *)
(* result is normalized again.                                             *)

\* every digit string of up to MaxShortDigits digits over "1" and "5", and
\* longer ones of up to MaxDigits digits: two leading digits out of "1" and
\* "5", then 2, 3, 4, ...
MaxShortDigits == 7
MaxDigits == 12

Counting(n) == [i \in 1..n |-> <<"2", "3", "4", "5", "6", "7", "8", "9", "0", "2", "3", "4", "5", "6", "7", "8", "9", "0">>[((i - 1) % 18) + 1]]

DigitStrings ==
    UNION { [1..n -> {"1", "5"}] : n \in 0..MaxShortDigits }
      \cup { <<a, b>> \o Counting(n) : a \in {"1", "5"}, b \in {"1", "5"},
                                       n \in 0..(MaxDigits - 2) }

\* the ways a digit string is written out: bare, with a leading "+", with a
\* "-" after every third digit, with letters and blanks around it
RECURSIVE Dashed(_)
Dashed(d) == IF Len(d) <= 3 THEN d ELSE SubSeq(d, 1, 3) \o <<"-">> \o Dashed(SubSeq(d, 4, Len(d)))

Written(d) == { d, <<"+">> \o d, Dashed(d), <<" ", "t", "e", "l", ":", " ", "(">> \o d \o <<")", " ", "x">> }

PhoneExamples ==
    { <<"+", "1", " ", "(", "5", "5", "5", ")", " ", "1", "2", "3", "-", "4", "5", "6", "7">>, <<"5", "5", "5", "1", "2", "3", "4", "5", "6", "7">>, <<"1", "5", "5", "5", "1", "2", "3", "4", "5", "6", "7">>, <<"1", "2", "3">>,
      <<"+", "4", "4", " ", "7", "9", "1", "1", " ", "1", "2", "3", "4", "5", "6">>, <<"2", "5", "5", "5", "1", "2", "3", "4", "5", "6", "7">>, <<"1", "2", "3", "4", "5", "6", "7">>, <<"m", "o", "m", "@", "x", ".", "c", "o", "m">> }

RawPhones == UNION { Written(d) : d \in DigitStrings } \cup PhoneExamples \cup { NULL }

\* e-mail strings: every string of up to MaxEmailLen characters over a small
\* alphabet with blanks and both cases, and some addresses
MaxEmailLen == 4

EmailAlphabet == { " ", "\t", "A", "a", "@" }

EmailExamples == { <<"M", "o", "m", "@", "X", ".", "c", "o", "m", " ">>, <<"m", "o", "m", "@", "x", ".", "c", "o", "m">>, <<" ", " ", "B", "O", "B", "@", "E", "x", "a", "m", "p", "l", "e", ".", "C", "O", "M", "\n">>, <<" ", "a", " ", "b", " ">> }

RawEmails == UNION { [1..n -> EmailAlphabet] : n \in 0..MaxEmailLen } \cup EmailExamples

InitNormalize ==
    /\ op = "raw"
    /\ \/ rawKind = "phone" /\ raw \in RawPhones
       \/ rawKind = "email" /\ raw \in RawEmails
    /\ once = NULL
    /\ twice = NULL
    /\ DecodeIdle
    /\ ContactIdle
    /\ ToolIdle

NormalizePhone ==
    /\ op = "raw" /\ rawKind = "phone"
    /\ once' = normalizePhoneNumber(raw)
    /\ op' = "once"
    /\ UNCHANGED <<raw, rawKind, twice, decodeVars, contactVars, toolVars>>

NormalizePhoneAgain ==
    /\ op = "once" /\ rawKind = "phone"
    /\ twice' = normalizePhoneNumber(once)
    /\ op' = "twice"
    /\ UNCHANGED <<raw, rawKind, once, decodeVars, contactVars, toolVars>>

NormalizeEmail ==
    /\ op = "raw" /\ rawKind = "email"
    /\ once' = normalizeEmail(raw)
    /\ op' = "once"
    /\ UNCHANGED <<raw, rawKind, twice, decodeVars, contactVars, toolVars>>

NormalizeEmailAgain ==
    /\ op = "once" /\ rawKind = "email"
    /\ twice' = normalizeEmail(once)
    /\ op' = "twice"
    /\ UNCHANGED <<raw, rawKind, once, decodeVars, contactVars, toolVars>>

NextNormalize ==
    NormalizePhone \/ NormalizePhoneAgain \/ NormalizeEmail \/ NormalizeEmailAgain

SpecNormalize == InitNormalize /\ [][NextNormalize]_vars

----------------------------------------------------------------------------
(* The address books and the resolver calls that are tried *)

Record(first, last, org, nick) ==
    [ZFIRSTNAME |-> first, ZLASTNAME |-> last, ZORGANIZATION |-> org, ZNICKNAME |-> nick]

RecAl == Record(<<"A", "l">>, NULL, NULL, NULL)
RecAlice == Record(<<"A", "l", "i", "c", "e">>, NULL, <<"A", "c", "m", "e", " ", "I", "n", "c">>, <<"A", "l", "i">>)
RecMomSmith == Record(<<" ", "M", "o", "m", " ">>, <<"S", "m", "i", "t", "h">>, NULL, NULL)
RecMom == Record(<<"M", "o", "m">>, NULL, NULL, NULL)
RecAcme == Record(NULL, NULL, <<"A", "C", "M", "E">>, NULL)
\* a record no display name can be built from
RecBlank == Record(<<>>, NULL, <<" ">>, <<>>)

PhoneRowOf(rec, number) ==
    [ZFIRSTNAME |-> rec.ZFIRSTNAME, ZLASTNAME |-> rec.ZLASTNAME,
     ZORGANIZATION |-> rec.ZORGANIZATION, ZNICKNAME |-> rec.ZNICKNAME,
     ZFULLNUMBER |-> number]

EmailRowOf(rec, address) ==
    [ZFIRSTNAME |-> rec.ZFIRSTNAME, ZLASTNAME |-> rec.ZLASTNAME,
     ZORGANIZATION |-> rec.ZORGANIZATION, ZNICKNAME |-> rec.ZNICKNAME,
     ZADDRESS |-> address]

MomsNumber == <<"5", "5", "5", "1", "2", "3", "4", "5", "6", "7">>
MomsNumberWritten == <<"+", "1", " ", "(", "5", "5", "5", ")", " ", "1", "2", "3", "-", "4", "5", "6", "7">>
OtherNumber == <<"5", "5", "5", "-", "0", "0", "0", "0">>
MomsAddress == <<"M", "o", "m", "@", "X", ".", "c", "o", "m", " ">>

\* rows of the phone query: two contacts under the same number written two
\* ways, contacts whose names contain one another, a number too short
PhoneRowPool ==
    { PhoneRowOf(RecMom, MomsNumber), PhoneRowOf(RecAl, MomsNumberWritten),
      PhoneRowOf(RecAlice, OtherNumber), PhoneRowOf(RecMomSmith, OtherNumber),
      PhoneRowOf(RecAcme, <<"1", "2", "3">>) }

\* rows of the e-mail query: two contacts under the same address written two
\* ways, a record no name can be built from, a blank address, an address
\* that reads like Mom's number
EmailRowPool ==
    { EmailRowOf(RecMom, MomsAddress), EmailRowOf(RecAlice, <<"m", "o", "m", "@", "x", ".", "c", "o", "m">>),
      EmailRowOf(RecBlank, <<"m", "o", "m", "@", "x", ".", "c", "o", "m">>), EmailRowOf(RecAcme, <<" ">>),
      EmailRowOf(RecMom, MomsNumber) }

\* the rows of the snapshots that come in pairs
FewPhoneRows == { PhoneRowOf(RecMom, MomsNumber), PhoneRowOf(RecAl, MomsNumberWritten) }
FewEmailRows == { EmailRowOf(RecAlice, MomsAddress) }

\* the sequences over a set of up to n elements
SeqUpTo(set, n) == UNION { [1..k -> set] : k \in 0..n }

\* rows per query of a lone snapshot
MaxRows == 2

SnapshotOf(opens, phoneQueryOk, emailQueryOk, closes, phoneRows, emailRows) ==
    [opens |-> opens, phoneQueryOk |-> phoneQueryOk, emailQueryOk |-> emailQueryOk,
     closes |-> closes, phoneRows |-> phoneRows, emailRows |-> emailRows]

\* what becomes of a snapshot: read in full, not opened, the phone query
\* throwing, the e-mail query throwing
Fates == { <<TRUE, TRUE, TRUE>>, <<FALSE, TRUE, TRUE>>,
           <<TRUE, FALSE, TRUE>>, <<TRUE, TRUE, FALSE>> }

LoneSnapshots ==
    { SnapshotOf(TRUE, TRUE, TRUE, TRUE, ps, es) :
        ps \in SeqUpTo(PhoneRowPool, MaxRows), es \in SeqUpTo(EmailRowPool, 1) }

FirstOfTwo ==
    { SnapshotOf(f[1], f[2], f[3], TRUE, ps, es) :
        f \in Fates, ps \in SeqUpTo(FewPhoneRows, 1), es \in SeqUpTo(FewEmailRows, 1) }

SecondOfTwo ==
    { SnapshotOf(TRUE, TRUE, TRUE, TRUE, ps, es) :
        ps \in SeqUpTo(FewPhoneRows, 1), es \in SeqUpTo(FewEmailRows, 1) }

\* a snapshot that is read in full and then fails to close
FailsToClose(db) == [db EXCEPT !.closes = FALSE]

\* address books whose build throws: the first or the second of two
\* snapshots fails to close
ThrowingBooks ==
    { <<FailsToClose(a), b>> : a \in { x \in FirstOfTwo : x.opens }, b \in SecondOfTwo }
      \cup { <<a, FailsToClose(b)>> :
                a \in { x \in FirstOfTwo : x.opens /\ x.phoneQueryOk /\ x.emailQueryOk },
                b \in SecondOfTwo }

\* no source at all, one snapshot, two snapshots
AddressBooks ==
    { <<>> } \cup { <<a>> : a \in LoneSnapshots }
             \cup { <<a, b>> : a \in FirstOfTwo, b \in SecondOfTwo }
             \cup ThrowingBooks

\* the handles resolveHandleToName is called with
HandleInputs ==
    { NULL, <<>>, <<" ">>, MomsNumber, <<"+", "1", "5", "5", "5", "1", "2", "3", "4", "5", "6", "7">>, MomsNumberWritten, <<"5", "5", "5", "0", "0", "0", "0">>,
      <<"1", "2", "3">>, MomsAddress, <<"m", "o", "m", "@", "x", ".", "c", "o", "m">>, <<"n", "o", "b", "o", "d", "y", "@", "x", ".", "c", "o", "m">> }

\* the names resolveNameToHandleIds is called with
NameInputs ==
    { NULL, <<>>, <<" ">>, <<" ", "A", "L", " ">>, <<"a", "l", "i">>, <<"a", "l", "i", "c", "e">>, <<"A", "l", "i", "c", "e", " ", "C", "o", "o", "p", "e", "r">>, <<"m", "o">>,
      <<"M", "o", "m">>, <<"s", "m", "i", "t", "h">>, <<"a", "c", "m", "e">>, <<"x", "y", "z", "-", "n", "o", "t", "-", "p", "r", "e", "s", "e", "n", "t">> }

----------------------------------------------------------------------------
(* The resolvers as a state machine: the server answers one resolver call  *)
(* after the other, the first one that needs the cache building it.        *)

\* the cache fields of the server, as one record
TheCache == CacheOf(cacheInitialized, contactCache, nameToHandles, builds)

\* the cache fields of the server become those of the record
StoreCache(cache) ==
    /\ cacheInitialized' = cache.initialized
    /\ contactCache' = cache.handleToContact
    /\ nameToHandles' = cache.nameToHandles
    /\ builds' = cache.builds

InitResolve ==
    /\ op = "serving"
    /\ addressBook \in AddressBooks
    /\ cacheInitialized = FALSE
    /\ contactCache = NullMap
    /\ nameToHandles = NullMap
    /\ builds = 0
    /\ call = [fn |-> "none", arg |-> NULL, result |-> NULL]
    /\ DecodeIdle
    /\ NormIdle
    /\ ToolIdle

\* resolveHandleToName(handleId)
ResolveHandleToName ==
    /\ op = "serving"
    /\ \E handleId \in HandleInputs :
         IF Falsy(handleId)
         THEN /\ call' = [fn |-> "resolveHandleToName", arg |-> handleId,
                          result |-> Unknown]
              /\ UNCHANGED cacheVars
         ELSE \E cache \in { ensureContactCache(TheCache, addressBook) } :
                  /\ StoreCache(cache)
                  /\ call' = [fn |-> "resolveHandleToName", arg |-> handleId,
                              result |-> resolveHandleToName(cache.handleToContact,
                                                             handleId)]
    /\ UNCHANGED <<op, addressBook, decodeVars, normVars, toolVars>>

\* resolveNameToHandleIds(name)
ResolveNameToHandleIds ==
    /\ op = "serving"
    /\ \E name \in NameInputs :
         IF Falsy(name)
         THEN /\ call' = [fn |-> "resolveNameToHandleIds", arg |-> name,
                          result |-> <<>>]
              /\ UNCHANGED cacheVars
         ELSE \E cache \in { ensureContactCache(TheCache, addressBook) } :
                  /\ StoreCache(cache)
                  /\ call' = [fn |-> "resolveNameToHandleIds", arg |-> name,
                              result |-> resolveNameToHandleIds(cache.nameToHandles,
                                                                name)]
    /\ UNCHANGED <<op, addressBook, decodeVars, normVars, toolVars>>

NextResolve == ResolveHandleToName \/ ResolveNameToHandleIds

SpecResolve == InitResolve /\ [][NextResolve]_vars

----------------------------------------------------------------------------
(* The CallTool request handler and the eight tools.                       *)
(*                                                                         *)
(* What a query on chat.db returns is an input of the invocation. A text   *)
(* result is the pieces of its template literal; the messages or chats it  *)
(* lists are kept as lines, and the recipient it names as target.          *)

\* Body(e), with e evaluated once
With(e, Body(_)) == CHOOSE r \in { Body(x) : x \in { e } } : TRUE

\* what a handler has done to the server so far: the cache it leaves, the
\* resolver calls it made, those of them that read the index, and whether it
\* opened chat.db ("no": not tried, "yes", "failed")
Session(cache, resolverCalls, lookups, opened) ==
    [cache |-> cache, resolverCalls |-> resolverCalls, lookups |-> lookups,
     opened |-> opened]

\* a handler's outcome: a result, or an Error thrown with a message
Returned(pieces, lines, target) ==
    [threw |-> FALSE, text |-> pieces, lines |-> lines, target |-> target]
Threw(message) ==
    [threw |-> TRUE, text |-> message, lines |-> <<>>, target |-> NULL]

\* a handler's run: the session it ends with, its outcome, and the osascript
\* runs it made
Ran(s, outcome, runs) == [s |-> s, outcome |-> outcome, runs |-> runs]

\* the message of the Error openDatabase throws
OpenFailure ==
    << "Failed to open iMessage database: ", "${error.message}",
       ". Make sure you've granted Full Disk Access to Terminal/Claude Code." >>

\* openDatabase(): the session with the store opened, or marked as failed
openDatabase(s, available) ==
    [s EXCEPT !.opened = IF available THEN "yes" ELSE "failed"]

\* this.resolveHandleToName(handleId), ensureContactCache included
ResolveHandle(s, dbs, handleId) ==
    IF Falsy(handleId)
    THEN [s |-> [s EXCEPT !.resolverCalls = @ + 1], result |-> Unknown]
    ELSE With(ensureContactCache(s.cache, dbs), LAMBDA cache :
           [s |-> [s EXCEPT !.cache = cache, !.resolverCalls = @ + 1,
                            !.lookups = @ + 1],
            result |-> resolveHandleToName(cache.handleToContact, handleId)])

\* this.resolveNameToHandleIds(name), ensureContactCache included
ResolveName(s, dbs, name) ==
    IF Falsy(name)
    THEN [s |-> [s EXCEPT !.resolverCalls = @ + 1], result |-> <<>>]
    ELSE With(ensureContactCache(s.cache, dbs), LAMBDA cache :
           [s |-> [s EXCEPT !.cache = cache, !.resolverCalls = @ + 1,
                            !.lookups = @ + 1],
            result |-> resolveNameToHandleIds(cache.nameToHandles, name)])

You == <<"Y", "o", "u">>

\* one formatted message: who it is from, its text, whether it shows an
\* attachment
Line(from, txt, attachment) == [from |-> from, text |-> txt, attachment |-> attachment]

\* this.getMessageText(msg) || ''
TextOrEmpty(m) ==
    With(getMessageText(m), LAMBDA t : IF t = NullText THEN <<>> ELSE t)

\* messages.map(msg => ...) of the three tools that list messages: the
\* sender is resolved unless the message is from me; fallback is the contact
\* argument of get_conversation (msg.contact || contact), NULL elsewhere
RECURSIVE FormatMessages(_, _, _, _)
FormatMessages(s, dbs, messages, fallback) ==
    IF messages = <<>> THEN [s |-> s, lines |-> <<>>]
    ELSE LET m == Head(messages) IN
         With(IF m.is_from_me THEN [s |-> s, result |-> You]
              ELSE ResolveHandle(s, dbs, IF Falsy(m.contact) THEN fallback
                                         ELSE m.contact),
              LAMBDA who :
         With(FormatMessages(who.s, dbs, Tail(messages), fallback),
              LAMBDA rest :
           [s |-> rest.s,
            lines |-> <<Line(who.result, TextOrEmpty(m), m.cache_has_attachments)>>
                      \o rest.lines]))

\* ': ' as code points
ColonSpace == <<58, 32>>

\* line.endsWith(': ') for `... ${from}${chatInfo}: ${text}${attachment}`
EndsWithColonSpace(line) ==
    /\ ~line.attachment
    /\ \/ line.text = <<>>
       \/ /\ Len(line.text) >= 2
          /\ SubSeq(line.text, Len(line.text) - 1, Len(line.text)) = ColonSpace

KeepLine(line) == ~EndsWithColonSpace(line)

\* the characters the . of a regular expression does not match
LineTerminators == { 10, 13, 8232, 8233 }
\* the white space trim() removes, as code points (those the model uses)
WhiteSpaceCodes == { 9, 10, 11, 12, 13, 32, 160 }

\* the filter of get_conversation: /\(ID: \d+\): (.*)$/ matches the line
\* and what follows the ID is not blank. (An attachment is shown as
\* ' [image: name]', which is neither blank nor holds a line terminator.)
KeepConversationLine(line) ==
    /\ \A i \in 1..Len(line.text) : line.text[i] \notin LineTerminators
    /\ \/ line.attachment
       \/ \E i \in 1..Len(line.text) : line.text[i] \notin WhiteSpaceCodes

\* messages.reverse()
Reverse(seq) == [i \in 1..Len(seq) |-> seq[Len(seq) + 1 - i]]

readRecentMessages(s0, dbs, available, messages) ==
    LET s == openDatabase(s0, available) IN
    IF s.opened = "failed" THEN Ran(s, Threw(OpenFailure), <<>>)
    ELSE With(FormatMessages(s, dbs, messages, NULL), LAMBDA f :
         With(SelectSeq(f.lines, KeepLine), LAMBDA lines :
           Ran(f.s,
               Returned(IF lines = <<>> THEN <<"No recent messages found.">>
                        ELSE <<"${formattedMessages}">>,
                        lines, NULL),
               <<>>)))

searchMessages(s0, dbs, available, query, messages) ==
    LET s == openDatabase(s0, available) IN
    IF s.opened = "failed" THEN Ran(s, Threw(OpenFailure), <<>>)
    ELSE With(ResolveName(s, dbs, query), LAMBDA resolvedHandles :
         With(FormatMessages(resolvedHandles.s, dbs, messages, NULL), LAMBDA f :
         With(SelectSeq(f.lines, KeepLine), LAMBDA lines :
           Ran(f.s,
               Returned(IF lines = <<>>
                        THEN <<"No messages found matching \"", "${query}", "\".">>
                        ELSE <<"${formattedMessages}">>,
                        lines, query),
               <<>>))))

\* /^\d{7,}$/.test(s)
SevenDigitsOrMore(s) ==
    Len(s) >= MinPhoneDigits /\ \A i \in 1..Len(s) : s[i] \in Digits

\* contact.includes('@') || contact.includes('+') || /^\d{7,}$/.test(contact)
LooksLikePhoneOrEmail(s) ==
    Includes(s, <<"@">>) \/ Includes(s, <<"+">>) \/ SevenDigitsOrMore(s)

\* hasChats: whether the queries for the chats of the contact found any
getConversation(s0, dbs, available, contact, hasChats, messages) ==
    LET s == openDatabase(s0, available) IN
    IF s.opened = "failed" THEN Ran(s, Threw(OpenFailure), <<>>)
    ELSE With(IF LooksLikePhoneOrEmail(contact) THEN s
              ELSE ResolveName(s, dbs, contact).s,
              LAMBDA s1 :
           IF ~hasChats
           THEN Ran(s1, Returned(<<"No conversation found with \"", "${contact}", "\".">>,
                                 <<>>, contact),
                    <<>>)
           ELSE With(FormatMessages(s1, dbs, Reverse(messages), contact), LAMBDA f :
                With(SelectSeq(f.lines, KeepConversationLine), LAMBDA lines :
                  Ran(f.s,
                      Returned(IF lines = <<>>
                               THEN <<"No messages found with \"", "${contact}",
                                      "\"", "${timeInfo}", ".">>
                               ELSE <<"${formattedMessages}">>,
                               lines, contact),
                      <<>>))))

\* attachments: whether the message has any
getAttachment(s0, available, attachments) ==
    LET s == openDatabase(s0, available) IN
    IF s.opened = "failed" THEN Ran(s, Threw(OpenFailure), <<>>)
    ELSE Ran(s,
             Returned(IF attachments
                      THEN <<"${contentBlocks}">>
                      ELSE <<"No attachments found for message ID ", "${messageId}", ".">>,
                      <<>>, NULL),
             <<>>)

\* chats.map(...): display_name || resolvedName || chat_identifier, the
\* handle resolved whenever there is one
RECURSIVE FormatChats(_, _, _)
FormatChats(s, dbs, chats) ==
    IF chats = <<>> THEN [s |-> s, lines |-> <<>>]
    ELSE LET chat == Head(chats) IN
         With(IF Falsy(chat.handle) THEN [s |-> s, result |-> NULL]
              ELSE ResolveHandle(s, dbs, chat.handle),
              LAMBDA resolvedName :
         With(FormatChats(resolvedName.s, dbs, Tail(chats)), LAMBDA rest :
           LET identifier ==
                 IF ~Falsy(chat.display_name) THEN chat.display_name
                 ELSE IF ~Falsy(resolvedName.result) THEN resolvedName.result
                 ELSE chat.chat_identifier
           IN  [s |-> rest.s,
                lines |-> <<Line(identifier, <<>>, FALSE)>> \o rest.lines]))

listRecentChats(s0, dbs, available, chats) ==
    LET s == openDatabase(s0, available) IN
    IF s.opened = "failed" THEN Ran(s, Threw(OpenFailure), <<>>)
    ELSE With(FormatChats(s, dbs, chats), LAMBDA f :
           Ran(f.s,
               Returned(<<"Recent Conversations", "${timeInfo}", ":\n\n",
                          "${formattedChats}">>,
                        f.lines, NULL),
               <<>>))

\* found: whether the contact queries on the snapshots that open return a
\* record a display name can be built from
lookupContact(s0, dbs, name, found) ==
    With([s0 EXCEPT !.cache = ensureContactCache(s0.cache, dbs)], LAMBDA s :
    IF \E i \in 1..Len(dbs) : dbs[i].opens /\ ~dbs[i].closes
    THEN Ran(s, Threw(<<"${error.message}">>), <<>>)
    ELSE IF found /\ \E i \in 1..Len(dbs) : dbs[i].opens
    THEN Ran(s, Returned(<<"Found ", "${results.length}", " contact(s) matching \"",
                           "${name}", "\":\n\n", "${formatted}">>,
                         <<>>, name),
             <<>>)
    ELSE Ran(s, Returned(<<"No contacts found matching \"", "${name}", "\".">>,
                         <<>>, name),
             <<>>))

\* !confirm, for a confirm argument that is true, false or missing
NotConfirmed(confirm) == confirm # "true"

\* to.replace(/["'\\]/g, '')
IsPlain(c) == c \notin { "\"", "'", "\\" }
Sanitize(to) == SelectSeq(to, IsPlain)

\* the normalized form of a handle of chat.db
NormalizedHandle(id) ==
    IF Includes(id, <<"@">>) THEN normalizeEmail(id) ELSE normalizePhoneNumber(id)

\* the for loop over allHandles: the id of the first handle whose
\* normalized form is among resolved, to when there is none
FirstResolved(allHandles, resolved, to) ==
    LET hits == { i \in 1..Len(allHandles) :
                    /\ ~Falsy(NormalizedHandle(allHandles[i]))
                    /\ SetHas(resolved, NormalizedHandle(allHandles[i])) }
    IN  IF hits = {} THEN to
        ELSE allHandles[CHOOSE i \in hits : \A j \in hits : i <= j]

\* one run of osascript
Osascript(script, target) == [script |-> script, target |-> target]

\* a mutant of sendMessage: the message is sent before confirm is looked at
sendMessageUngated(s0, dbs, available, to0, confirm, allHandles, scriptOk) ==
    With(IF LooksLikePhoneOrEmail(to0) THEN [s |-> s0, result |-> <<>>]
         ELSE ResolveName(s0, dbs, to0),
         LAMBDA resolved :
    LET s == IF resolved.result # <<>> THEN openDatabase(resolved.s, available)
             ELSE resolved.s
        to == IF resolved.result # <<>> /\ available
              THEN FirstResolved(allHandles, resolved.result, to0) ELSE to0
    IN  IF s.opened = "failed" THEN Ran(s, Threw(OpenFailure), <<>>)
        ELSE IF ~scriptOk
        THEN Ran(s, Threw(<<"Failed to send message: ", "${error.message}">>),
                 <<Osascript("send", Sanitize(to))>>)
        ELSE IF NotConfirmed(confirm)
        THEN Ran(s, Returned(<<"Message NOT sent. Confirmation required.\n\nTo: ",
                               "${to}", "\nMessage: \"", "${message}",
                               "\"\n\nTo send this message, set confirm=true.">>,
                             <<>>, to),
                 <<Osascript("send", Sanitize(to))>>)
        ELSE Ran(s, Returned(<<"Message sent to ", "${to}", ": \"", "${message}", "\"">>,
                             <<>>, to),
                 <<Osascript("send", Sanitize(to))>>))

\* allHandles: what SELECT id FROM handle returns; scriptOk: whether
\* osascript succeeds
sendMessage(s0, dbs, available, to0, confirm, allHandles, scriptOk) ==
    With(IF LooksLikePhoneOrEmail(to0) THEN [s |-> s0, result |-> <<>>]
         ELSE ResolveName(s0, dbs, to0),
         LAMBDA resolved :
    LET s == IF resolved.result # <<>> THEN openDatabase(resolved.s, available)
             ELSE resolved.s
        to == IF resolved.result # <<>> /\ available
              THEN FirstResolved(allHandles, resolved.result, to0) ELSE to0
    IN  IF s.opened = "failed" THEN Ran(s, Threw(OpenFailure), <<>>)
        ELSE IF NotConfirmed(confirm)
        THEN Ran(s, Returned(<<"Message NOT sent. Confirmation required.\n\nTo: ",
                               "${to}", "\nMessage: \"", "${message}",
                               "\"\n\nTo send this message, set confirm=true.">>,
                             <<>>, to),
                 <<>>)
        ELSE IF scriptOk
        THEN Ran(s, Returned(<<"Message sent to ", "${to}", ": \"", "${message}", "\"">>,
                             <<>>, to),
                 <<Osascript("send", Sanitize(to))>>)
        ELSE Ran(s, Threw(<<"Failed to send message: ", "${error.message}">>),
                 <<Osascript("send", Sanitize(to))>>))

reactToMessage(s0, confirm, scriptOk) ==
    IF NotConfirmed(confirm)
    THEN Ran(s0, Returned(<<"Reaction NOT sent. Confirmation required.\n\nMessage ID: ",
                            "${message_id}", "\nReaction: ", "${reactionEmoji[reaction]}",
                            " (", "${reaction}",
                            ")\n\nTo send this reaction, set confirm=true.">>,
                          <<>>, NULL),
             <<>>)
    ELSE IF scriptOk
    THEN Ran(s0, Returned(<<"Reaction sent: ", "${reactionEmoji[reaction]}",
                            " to message ", "${message_id}">>,
                          <<>>, NULL),
             <<Osascript("react", NULL)>>)
    ELSE Ran(s0, Threw(<<"Failed to send reaction: ", "${error.message}",
                         ". Note: Reactions may not work on all iMessage versions.">>),
             <<Osascript("react", NULL)>>)

\* the default branch of the switch
unknownTool(s0) == Ran(s0, Threw(<<"Unknown tool: ", "${request.params.name}">>), <<>>)

\* a mutant of CallTool: a thrown Error is answered with an empty result
CallToolSwallows(outcome) ==
    IF outcome.threw
    THEN [isError |-> FALSE, text |-> <<>>, lines |-> <<>>, target |-> NULL]
    ELSE [isError |-> FALSE, text |-> outcome.text,
          lines |-> outcome.lines, target |-> outcome.target]

\* the CallTool handler around a tool: its result as it is, a thrown Error
\* as an error result
CallTool(outcome) ==
    IF outcome.threw
    THEN [isError |-> TRUE, text |-> <<"Error: ">> \o outcome.text,
          lines |-> <<>>, target |-> NULL]
    ELSE [isError |-> FALSE, text |-> outcome.text,
          lines |-> outcome.lines, target |-> outcome.target]

----------------------------------------------------------------------------
(* The tools as a state machine: the server answers one tool invocation    *)
(* after the other, while access to chat.db is granted or withdrawn and    *)
(* the address book on disk is edited.                                     *)

\* osascript runs at most MaxSent times
MaxSent == 1

MessageRow(txt, body, mine, attachments, contact) ==
    [text |-> txt, attributedBody |-> body, is_from_me |-> mine,
     cache_has_attachments |-> attachments, contact |-> contact]

\* a body that decodes to "Hello world", and one with no delimiter
HelloBody == JsBuffer(marker \o ObservedHeader \o <<Delimiter, 11>> \o HelloWorld)
MalformedBody == JsBuffer(marker \o ObservedHeader)

MomsHandle == <<"+", "1", "5", "5", "5", "1", "2", "3", "4", "5", "6", "7">>
StrangersHandle == <<"+", "1", "9", "9", "9", "8", "8", "8", "7", "7", "7", "7">>

\* rows of the message queries: a message from Mom kept in its body only,
\* one from a stranger whose body is malformed, one of mine, one from a
\* stranger with a text column, and a photo with no sender
RowHello == MessageRow(JsNull, HelloBody, FALSE, FALSE, MomsHandle)
RowMalformed == MessageRow(JsNull, MalformedBody, FALSE, FALSE, StrangersHandle)
RowMine == MessageRow(JsString(<<72, 105>>), JsNull, TRUE, FALSE, NULL)
RowStranger == MessageRow(JsString(<<72, 105>>), MalformedBody, FALSE, FALSE, StrangersHandle)
RowPhoto == MessageRow(JsNull, MalformedBody, FALSE, TRUE, NULL)

MessageLists ==
    { <<>>, <<RowHello>>, <<RowMalformed>>, <<RowMine>>, <<RowPhoto>>,
      <<RowMalformed, RowHello>>, <<RowStranger, RowMalformed>> }

FewMessageLists == { <<>>, <<RowMalformed, RowHello>> }

ChatRow(handle, display_name) ==
    [handle |-> handle, display_name |-> display_name,
     chat_identifier |-> <<"c", "h", "a", "t", "1">>]

ChatLists ==
    { <<>>, <<ChatRow(MomsHandle, NULL)>>, <<ChatRow(StrangersHandle, NULL)>>,
      <<ChatRow(NULL, <<"F", "a", "m">>), ChatRow(MomsHandle, <<>>)>> }

\* what SELECT id FROM handle returns
HandleLists == { <<>>, <<MomsAddress, MomsNumberWritten>> }

\* the to / contact / query / name argument: a name of the address book, a
\* name that is not in it, a phone number, a blank
ToolTargets ==
    { <<"M", "o", "m">>, <<"z", "e", "d">>, MomsHandle, <<" ">> }

\* the confirm argument
Confirms == { "true", "false", "missing" }

\* the address book without a source, and one whose first snapshot cannot be
\* opened and whose second holds Mom
ToolAddressBooks ==
    { <<>>,
      << SnapshotOf(FALSE, TRUE, TRUE, TRUE, <<PhoneRowOf(RecAl, MomsNumber)>>, <<>>),
         SnapshotOf(TRUE, TRUE, TRUE, TRUE, <<PhoneRowOf(RecMom, MomsNumber)>>,
                    <<EmailRowOf(RecMom, MomsAddress)>>) >> }

Args(target, confirm) == [target |-> target, confirm |-> confirm]

\* the session a handler starts with
NewSession == Session(TheCache, 0, 0, "no")

InitTools ==
    /\ op = "tools"
    /\ addressBook \in ToolAddressBooks
    /\ cacheInitialized = FALSE
    /\ contactCache = NullMap
    /\ nameToHandles = NullMap
    /\ builds = 0
    /\ call = [fn |-> "none", arg |-> NULL, result |-> NULL]
    /\ storeAvailable \in BOOLEAN
    /\ request = NoRequest
    /\ response = NoResponse
    /\ sent = <<>>
    /\ DecodeIdle
    /\ NormIdle

\* the request handler has run the tool name with args
Invoke(name, args, ran) ==
    /\ Len(sent) + Len(ran.runs) <= MaxSent
    /\ request' = [name |-> name, args |-> args, opened |-> ran.s.opened,
                   resolverCalls |-> ran.s.resolverCalls, lookups |-> ran.s.lookups]
    /\ response' = CallTool(ran.outcome)
    /\ StoreCache(ran.s.cache)
    /\ sent' = sent \o ran.runs
    /\ UNCHANGED <<op, addressBook, call, storeAvailable, decodeVars, normVars>>

ReadRecentMessages ==
    /\ op = "tools"
    /\ \E messages \in MessageLists :
         \E ran \in { readRecentMessages(NewSession, addressBook, storeAvailable, messages) } :
           Invoke("read_recent_messages", NoArgs, ran)

SearchMessages ==
    /\ op = "tools"
    /\ \E query \in ToolTargets, messages \in FewMessageLists :
         \E ran \in { searchMessages(NewSession, addressBook, storeAvailable, query, messages) } :
           Invoke("search_messages", Args(query, "missing"), ran)

GetConversation ==
    /\ op = "tools"
    /\ \E contact \in ToolTargets, hasChats \in BOOLEAN, messages \in FewMessageLists :
         /\ (~hasChats => messages = <<>>)
         /\ \E ran \in { getConversation(NewSession, addressBook, storeAvailable, contact,
                                   hasChats, messages) } :
              Invoke("get_conversation", Args(contact, "missing"), ran)

SendMessage ==
    /\ op = "tools"
    /\ \E to \in ToolTargets, confirm \in Confirms, allHandles \in HandleLists,
          scriptOk \in BOOLEAN :
         \E ran \in { sendMessage(NewSession, addressBook, storeAvailable, to, confirm,
                            allHandles, scriptOk) } :
           Invoke("send_message", Args(to, confirm), ran)

ListRecentChats ==
    /\ op = "tools"
    /\ \E chats \in ChatLists :
         \E ran \in { listRecentChats(NewSession, addressBook, storeAvailable, chats) } :
           Invoke("list_recent_chats", NoArgs, ran)

LookupContact ==
    /\ op = "tools"
    /\ \E name \in ToolTargets, found \in BOOLEAN :
         \E ran \in { lookupContact(NewSession, addressBook, name, found) } :
           Invoke("lookup_contact", Args(name, "missing"), ran)

ReactToMessage ==
    /\ op = "tools"
    /\ \E confirm \in Confirms, scriptOk \in BOOLEAN :
         \E ran \in { reactToMessage(NewSession, confirm, scriptOk) } :
           Invoke("react_to_message", Args(NULL, confirm), ran)

GetAttachment ==
    /\ op = "tools"
    /\ \E attachments \in BOOLEAN :
         \E ran \in { getAttachment(NewSession, storeAvailable, attachments) } :
           Invoke("get_attachment", NoArgs, ran)

UnknownTool ==
    /\ op = "tools"
    /\ \E ran \in { unknownTool(NewSession) } : Invoke("unknown", NoArgs, ran)

\* Full Disk Access is granted or withdrawn
StoreAccessChanges ==
    /\ op = "tools"
    /\ storeAvailable' = ~storeAvailable
    /\ UNCHANGED <<op, contactVars, request, response, sent, decodeVars, normVars>>

\* the address book on disk is edited
ContactsChange ==
    /\ op = "tools"
    /\ \E book \in ToolAddressBooks \ { addressBook } : addressBook' = book
    /\ UNCHANGED <<op, cacheVars, call, toolVars, decodeVars, normVars>>

NextTools ==
    \/ ReadRecentMessages \/ SearchMessages \/ GetConversation \/ SendMessage
    \/ ListRecentChats \/ LookupContact \/ ReactToMessage \/ GetAttachment
    \/ UnknownTool \/ StoreAccessChanges \/ ContactsChange

SpecTools == InitTools /\ [][NextTools]_vars

----------------------------------------------------------------------------
(* Properties of the decoder *)

\* the row built from the current layout holds the marker somewhere
ContainsMarker(buf) ==
    \E i \in 1..(Len(buf) - Len(marker) + 1) :
        SubSeq(buf, i, i + Len(marker) - 1) = marker

\* the buffer is marker + header + delimiter + one length byte + payload
\* with as many payload bytes as the length byte says, and nothing else
OneByteBuilt ==
    /\ layout.kind = "buffer" /\ layout.pre = <<>> /\ layout.trail = <<>>
    /\ layout.hasMarker /\ layout.hasDelim /\ layout.form = "one"
    /\ Len(layout.payload) = layout.declared

\* the header lets the delimiter be found: it holds no delimiter byte of its
\* own and is at most SearchWindow bytes long
HeaderInReach ==
    /\ Len(layout.header) <= SearchWindow
    /\ \A i \in 1..Len(layout.header) : layout.header[i] # Delimiter

\* C1: getMessageText returns the text column when it is a non-empty string,
\* otherwise what the decoder returns for the attributedBody when there is
\* one, otherwise null; a row with text = NULL and a body encoding
\* "Hello world" in the one-byte form gives "Hello world".
C1_FallbackChain ==
    op = "resolved" =>
      /\ (msg.text.type = "string" /\ msg.text.val # <<>>) => text = msg.text.val
      /\ (msg.text.type = "null" \/ msg.text.val = <<>>) =>
           IF msg.attributedBody.type # "null"
           THEN text = extractTextFromAttributedBody(msg.attributedBody)
           ELSE text = NullText
      /\ ( /\ msg.text = JsNull /\ OneByteBuilt /\ layout.header = ObservedHeader
           /\ layout.payload = HelloWorld )
           => text = HelloWorld

C1_Witness ==
    /\ op = "resolved" /\ msg.text = JsNull /\ OneByteBuilt
    /\ layout.payload = HelloWorld /\ text = HelloWorld

\* a second case of C1's chain: the text column wins over a decodable body
C1_TextWins ==
    /\ op = "resolved" /\ msg.text.val = <<72, 105>> /\ text = <<72, 105>>
    /\ extractTextFromAttributedBody(msg.attributedBody) # NullText

\* C2 as stated: for every buffer marker + header + delimiter + length byte N
\* + N payload bytes, decode returns the payload as text when 1 <= N <= 128
\* and absent when N = 0, whatever the header bytes are.
C2_AnyHeader ==
    (op = "extracted" /\ OneByteBuilt) =>
      IF layout.declared = 0 THEN decoded = NullText
      ELSE decoded = Utf8ToString(layout.payload)

\* C2 amended: the same, for headers of at most 12 bytes none of which is the
\* delimiter byte 0x2b.
C2_OneByteLength ==
    (op = "extracted" /\ OneByteBuilt /\ HeaderInReach) =>
      /\ IF layout.declared = 0 THEN decoded = NullText
         ELSE decoded = Utf8ToString(layout.payload)
      /\ layout.payload = HelloWorld => decoded = HelloWorld
      /\ layout.payload = <<195, 169>> => decoded = <<233>>

C2_Witness ==
    /\ op = "extracted" /\ OneByteBuilt /\ Len(layout.header) = SearchWindow
    /\ layout.declared = 128 /\ Len(decoded) = 128
    /\ decoded = layout.payload

\* the big-endian value of the bytes of a multi-byte length field after its
\* tag, for a value below 2^31
BigEndian(bytes) ==
    IF Len(bytes) = 2 THEN bytes[1] * 256 + bytes[2]
    ELSE ((bytes[1] * 256 + bytes[2]) * 256 + bytes[3]) * 256 + bytes[4]

\* the buffer holds a marker, a header in reach, a delimiter and a 2- or
\* 4-byte length field, complete
MultiByteBuilt ==
    /\ layout.kind = "buffer" /\ layout.hasMarker /\ layout.hasDelim
    /\ ~ContainsMarker(layout.pre \o SubSeq(marker, 1, Len(marker) - 1))
    /\ HeaderInReach
    /\ \/ Len(layout.field) = 3 /\ layout.field[1] = Tag16
       \/ Len(layout.field) = 5 /\ layout.field[1] = Tag32

\* C3: behind tag 0x81 (0x82) the next 2 (4) bytes, big-endian, are the
\* payload length: [0x01, 0x00] is 256, 0x00010000 is 65536, lengths up to
\* 65535 are reached by the 2-byte form; the text returned is exactly that
\* many bytes right after the length field. (A 4-byte value with the top bit
\* set exceeds every buffer: nothing is returned.)
C3_BigEndianLength ==
    (op = "extracted" /\ MultiByteBuilt) =>
      LET buf == Assemble(layout)
          at == Len(layout.pre) + Len(marker) + Len(layout.header) + 1
          got == ReadLength(buf, at)
          rest == layout.payload \o layout.trail
          bytes == Tail(layout.field)
      IN  IF bytes[1] >= 128 /\ Len(bytes) = 4 THEN decoded = NullText
          ELSE
            /\ got.textLen = BigEndian(bytes)
            /\ got.pos = at + Len(layout.field)
            /\ bytes = <<1, 0>> => got.textLen = 256
            /\ bytes = <<255, 255>> => got.textLen = 65535
            /\ bytes = <<0, 1, 0, 0>> => got.textLen = 65536
            /\ IF BigEndian(bytes) >= 1 /\ BigEndian(bytes) <= Len(rest)
               THEN decoded = Utf8ToString(SubSeq(rest, 1, BigEndian(bytes)))
               ELSE decoded = NullText

C3_Witness ==
    /\ op = "extracted" /\ MultiByteBuilt
    /\ layout.field = <<Tag16, 1, 0>>
    /\ Len(decoded) = 256 /\ decoded = layout.payload

\* further cases of C3: the 2-byte form at its largest length, and the
\* 4-byte form at 0x00010000
C3_Witness65535 ==
    /\ op = "extracted" /\ MultiByteBuilt
    /\ layout.field = <<Tag16, 255, 255>>
    /\ Len(decoded) = 65535 /\ decoded = layout.payload

C3_Witness65536 ==
    /\ op = "extracted" /\ MultiByteBuilt
    /\ layout.field = <<Tag32, 0, 1, 0, 0>>
    /\ Len(decoded) = 65536 /\ decoded = layout.payload

\* C4: decode returns absent for every input that is no Buffer and for every
\* Buffer that does not hold the marker; of several markers only the first
\* one locates the payload.
C4_MarkerRequired ==
    op = "extracted" =>
      LET body == msg.attributedBody
          buf == body.val
          first == CHOOSE i \in 1..Len(buf) :
                     /\ SubSeq(buf, i, i + Len(marker) - 1) = marker
                     /\ \A j \in 1..(i - 1) : SubSeq(buf, j, j + Len(marker) - 1) # marker
      IN  /\ body.type # "buffer" => decoded = NullText
          /\ (body.type = "buffer" /\ ~ContainsMarker(buf)) => decoded = NullText
          /\ (body.type = "buffer" /\ ContainsMarker(buf)) =>
               decoded = DecodeBytes(SubSeq(buf, first, Len(buf)))
          /\ (body.type = "buffer" /\ layout.pre = marker \o Fill(14, 1))
               => decoded = NullText
          /\ (body.type = "buffer" /\ layout.pre = marker \o <<1, Delimiter, 1, 90>>)
               => decoded = <<90>>

C4_Witness ==
    /\ op = "extracted" /\ layout.kind = "buffer"
    /\ layout.pre = marker \o Fill(14, 1) /\ layout.hasMarker
    /\ layout.header = ObservedHeader /\ layout.declared = 1
    /\ decoded = NullText

\* further cases of C4: a Buffer without the marker, and a value that is no
\* Buffer, each holding an otherwise well-formed payload
C4_WitnessNoMarker ==
    /\ op = "extracted" /\ layout.kind = "buffer" /\ ~layout.hasMarker
    /\ layout.pre = SubSeq(marker, 1, 7) /\ layout.declared = 1
    /\ decoded = NullText

C4_WitnessNoBuffer ==
    /\ op = "extracted" /\ layout.kind = "string" /\ layout.declared = 1
    /\ decoded = NullText

----------------------------------------------------------------------------
(* Properties of the normalizers *)

\* the digits of a raw string, in order
DigitsOf(s) == SelectSeq(s, LAMBDA c : c \in Digits)

\* C5: normalizePhoneNumber removes every non-digit; fewer than 7 digits give
\* absent; exactly 11 digits with a leading "1" give the last 10; anything
\* else gives all the digits. "+1 (555) 123-4567" and "5551234567" both give
\* "5551234567", "123" gives absent.
C5_PhoneNormalizer ==
    (op \in {"once", "twice"} /\ rawKind = "phone" /\ raw # NULL) =>
      LET d == DigitsOf(raw) IN
        /\ Len(d) < 7 => once = NULL
        /\ (Len(d) = 11 /\ d[1] = "1") => once = SubSeq(d, 2, 11)
        /\ (Len(d) >= 7 /\ ~(Len(d) = 11 /\ d[1] = "1")) => once = d
        /\ raw = <<"+", "1", " ", "(", "5", "5", "5", ")", " ", "1", "2", "3", "-", "4", "5", "6", "7">> => once = <<"5", "5", "5", "1", "2", "3", "4", "5", "6", "7">>
        /\ raw = <<"5", "5", "5", "1", "2", "3", "4", "5", "6", "7">> => once = <<"5", "5", "5", "1", "2", "3", "4", "5", "6", "7">>
        /\ raw = <<"1", "2", "3">> => once = NULL

C5_Witness ==
    /\ op = "once" /\ rawKind = "phone"
    /\ raw = <<"+", "1", " ", "(", "5", "5", "5", ")", " ", "1", "2", "3", "-", "4", "5", "6", "7">> /\ once = <<"5", "5", "5", "1", "2", "3", "4", "5", "6", "7">>

\* further cases of C5: too few digits, and twelve digits kept as they are
C5_WitnessShort ==
    /\ op = "once" /\ rawKind = "phone" /\ raw = <<"1", "2", "3">> /\ once = NULL

C5_WitnessLong ==
    /\ op = "once" /\ rawKind = "phone" /\ raw # NULL
    /\ Len(DigitsOf(raw)) = 12 /\ raw[1] = "+" /\ raw[2] = "1" /\ Len(once) = 12

\* C6: normalizing a normalized handle changes nothing, for the phone
\* normalizer (absent included) and for the e-mail normalizer.
C6_Idempotent == op = "twice" => twice = once

C6_Witness ==
    /\ op = "twice" /\ rawKind = "phone" /\ raw # NULL
    /\ Len(DigitsOf(raw)) = 11 /\ DigitsOf(raw)[1] = "1" /\ DigitsOf(raw)[2] = "1"
    /\ Len(once) = 10 /\ once[1] = "1" /\ twice = once

\* further cases of C6: the absent result, and an e-mail address
C6_WitnessAbsent ==
    /\ op = "twice" /\ rawKind = "phone" /\ raw # NULL /\ once = NULL /\ twice = NULL

C6_WitnessEmail ==
    /\ op = "twice" /\ rawKind = "email" /\ raw = <<" ", " ", "B", "O", "B", "@", "E", "x", "a", "m", "p", "l", "e", ".", "C", "O", "M", "\n">>
    /\ once = <<"b", "o", "b", "@", "e", "x", "a", "m", "p", "l", "e", ".", "c", "o", "m">> /\ twice = once

----------------------------------------------------------------------------
(* Properties of the resolvers *)

\* the handle a looked-up handle is searched under, NULL when there is none
LookupKey(handleId) ==
    IF Falsy(handleId) THEN NULL
    ELSE IF \E i \in 1..Len(handleId) : handleId[i] = "@"
    THEN Trim(ToLowerCase(handleId))
    ELSE normalizePhoneNumber(handleId)

\* the handle is found in the cache
Resolves(handleId) ==
    /\ cacheInitialized
    /\ LookupKey(handleId) # NULL
    /\ LookupKey(handleId) \in MapKeys(contactCache)

\* C7 as stated: resolveHandleToName returns the display name of the contact
\* the normalized handle is a key of, and the input itself otherwise, an
\* empty input included.
C7_VerbatimAlways ==
    (call.fn = "resolveHandleToName" /\ call.arg # NULL) =>
      IF Resolves(call.arg)
      THEN call.result = MapGet(contactCache, LookupKey(call.arg)).displayName
      ELSE call.result = call.arg

\* C7 amended: the same for every input that is not empty; for an empty or
\* absent input the result is "Unknown".
C7_HandleToName ==
    call.fn = "resolveHandleToName" =>
      IF call.arg = NULL \/ call.arg = <<>> THEN call.result = Unknown
      ELSE IF Resolves(call.arg)
      THEN call.result = MapGet(contactCache, LookupKey(call.arg)).displayName
      ELSE call.result = call.arg

C7_Witness ==
    /\ call.fn = "resolveHandleToName" /\ call.arg = <<"5", "5", "5", "0", "0", "0", "0">>
    /\ contactCache # <<>> /\ ~Resolves(call.arg)
    /\ call.result = <<"5", "5", "5", "0", "0", "0", "0">>

\* further cases of C7: a handle that resolves, one that cannot be
\* normalized, the empty one
C7_WitnessFound ==
    /\ call.fn = "resolveHandleToName" /\ call.arg = <<"m", "o", "m", "@", "x", ".", "c", "o", "m">>
    /\ Resolves(call.arg) /\ call.result = <<"A", "l", "i", "c", "e">>

C7_WitnessShort ==
    /\ call.fn = "resolveHandleToName" /\ call.arg = <<"1", "2", "3">>
    /\ contactCache # <<>> /\ call.result = <<"1", "2", "3">>

C7_WitnessEmpty ==
    /\ call.fn = "resolveHandleToName" /\ call.arg = <<>> /\ call.result = Unknown

\* the rows the build reads, in the order it reads them: snapshot after
\* snapshot, the phone rows before the e-mail rows, each with the handle it
\* is entered under (NULL when it is skipped)
RowsRead(db) ==
    IF ~db.opens \/ ~db.phoneQueryOk THEN <<>>
    ELSE [i \in 1..Len(db.phoneRows) |->
            [row |-> db.phoneRows[i],
             handle |-> normalizePhoneNumber(db.phoneRows[i].ZFULLNUMBER)]]
         \o (IF ~db.emailQueryOk THEN <<>>
             ELSE [i \in 1..Len(db.emailRows) |->
                     [row |-> db.emailRows[i],
                      handle |-> IF Falsy(db.emailRows[i].ZADDRESS) THEN NULL
                                 ELSE Trim(ToLowerCase(db.emailRows[i].ZADDRESS))]])

RECURSIVE AllRowsRead(_)
AllRowsRead(dbs) ==
    IF dbs = <<>> THEN <<>> ELSE RowsRead(Head(dbs)) \o AllRowsRead(Tail(dbs))

\* the rows that are entered in the index: a handle and a display name, in
\* a build that does not throw
Indexed(dbs) ==
    IF buildContactCacheThrows(dbs) THEN <<>>
    ELSE SelectSeq(AllRowsRead(dbs),
                   LAMBDA r : r.handle # NULL /\ buildDisplayName(r.row) # NULL)

\* C8: a looked-up handle b whose normalized form is that of an indexed
\* address-book value a resolves to the display name stored for the handle,
\* that of the last row entered under it; "5551234567" under "Mom" makes
\* "+15551234567" resolve to "Mom".
C8_SameNormalization ==
    call.fn = "resolveHandleToName" =>
      LET rows == Indexed(addressBook)
          same == { i \in 1..Len(rows) : rows[i].handle = LookupKey(call.arg) }
          last == CHOOSE i \in same : \A j \in same : j <= i
      IN  /\ same # {} => call.result = buildDisplayName(rows[last].row)
          /\ ( /\ call.arg = <<"+", "1", "5", "5", "5", "1", "2", "3", "4", "5", "6", "7">>
               /\ same # {}
               /\ \A i \in same : /\ "ZFULLNUMBER" \in DOMAIN rows[i].row
                                  /\ rows[i].row.ZFULLNUMBER = MomsNumber
                                  /\ rows[i].row.ZFIRSTNAME = <<"M", "o", "m">>
                                  /\ rows[i].row.ZLASTNAME = NULL )
               => call.result = <<"M", "o", "m">>

C8_Witness ==
    /\ call.fn = "resolveHandleToName" /\ call.arg = <<"+", "1", "5", "5", "5", "1", "2", "3", "4", "5", "6", "7">>
    /\ Len(addressBook) = 1
    /\ addressBook[1].phoneRows = <<PhoneRowOf(RecMom, MomsNumber)>>
    /\ call.result = <<"M", "o", "m">>

\* a further case of C8: the address book writes the number out, the lookup
\* does not, and a later row under the same number has replaced the first
C8_WitnessLastRow ==
    /\ call.fn = "resolveHandleToName" /\ call.arg = MomsNumber
    /\ Len(addressBook) = 2
    /\ addressBook[1].opens /\ addressBook[1].phoneQueryOk
    /\ addressBook[1].phoneRows = <<PhoneRowOf(RecMom, MomsNumber)>>
    /\ addressBook[2].phoneRows = <<PhoneRowOf(RecAl, MomsNumberWritten)>>
    /\ call.result = <<"A", "l">>

\* the tokens of the index and the handles of a token, as sets
Tokens == MapKeys(nameToHandles)
HandlesOf(token) == { MapGet(nameToHandles, token)[i] :
                        i \in 1..Len(MapGet(nameToHandles, token)) }

\* the elements of an array, and whether none is repeated
Elements(array) == { array[i] : i \in 1..Len(array) }
NoRepeats(array) == \A i, j \in 1..Len(array) : array[i] = array[j] => i = j

\* t contains q or q contains t
Overlap(t, q) ==
    \/ \E i \in 0..(Len(t) - Len(q)) : SubSeq(t, i + 1, i + Len(q)) = q
    \/ \E i \in 0..(Len(q) - Len(t)) : SubSeq(q, i + 1, i + Len(t)) = t

\* the query as it is compared with the tokens
Query(name) == Trim(ToLowerCase(name))

\* C9: when the lower-cased, trimmed query is a token of nameToHandles, the
\* result is exactly the handle set of that token: the handles of tokens that
\* merely contain the query, or are contained in it, are not added.
C9_ExactMatchFirst ==
    ( /\ call.fn = "resolveNameToHandleIds" /\ call.arg # NULL
      /\ cacheInitialized /\ Query(call.arg) \in Tokens ) =>
        /\ Elements(call.result) = HandlesOf(Query(call.arg))
        /\ NoRepeats(call.result)

C9_Witness ==
    /\ call.fn = "resolveNameToHandleIds" /\ call.arg = <<"a", "l", "i">>
    /\ cacheInitialized /\ <<"a", "l", "i">> \in Tokens /\ <<"a", "l">> \in Tokens
    /\ HandlesOf(<<"a", "l">>) \ HandlesOf(<<"a", "l", "i">>) # {}
    /\ Elements(call.result) = HandlesOf(<<"a", "l", "i">>)

\* C10 as stated: without an exact token match the result is the union,
\* without repeats, of the handle sets of the tokens that contain the query
\* or are contained in it, and empty when there is none.
C10_UnionAlways ==
    ( /\ call.fn = "resolveNameToHandleIds" /\ cacheInitialized
      /\ call.arg # NULL /\ Query(call.arg) \notin Tokens ) =>
        /\ Elements(call.result) =
             UNION { HandlesOf(t) : t \in { u \in Tokens : Overlap(u, Query(call.arg)) } }
        /\ NoRepeats(call.result)

\* C10 amended: the same for a query that is not the empty string (nor
\* absent); the empty string and an absent name give an empty result.
C10_SubstringUnion ==
    ( /\ call.fn = "resolveNameToHandleIds" /\ cacheInitialized
      /\ (call.arg = NULL \/ Query(call.arg) \notin Tokens) ) =>
        IF call.arg = NULL \/ call.arg = <<>> THEN call.result = <<>>
        ELSE
          /\ Elements(call.result) =
               UNION { HandlesOf(t) : t \in { u \in Tokens : Overlap(u, Query(call.arg)) } }
          /\ NoRepeats(call.result)
          /\ call.arg = <<"x", "y", "z", "-", "n", "o", "t", "-", "p", "r", "e", "s", "e", "n", "t">> => call.result = <<>>

C10_Witness ==
    /\ call.fn = "resolveNameToHandleIds" /\ call.arg = <<"m", "o">>
    /\ cacheInitialized /\ <<"m", "o", "m", " ", "s", "m", "i", "t", "h">> \in Tokens /\ <<"m", "o", "m">> \in Tokens
    /\ HandlesOf(<<"m", "o", "m">>) \cap HandlesOf(<<"m", "o", "m", " ", "s", "m", "i", "t", "h">>) # {}
    /\ Len(call.result) = 2 /\ NoRepeats(call.result)

\* further cases of C10: the query contains a token, and no token qualifies
C10_WitnessContains ==
    /\ call.fn = "resolveNameToHandleIds" /\ call.arg = <<"A", "l", "i", "c", "e", " ", "C", "o", "o", "p", "e", "r">>
    /\ cacheInitialized /\ <<"a", "l", "i", "c", "e">> \in Tokens /\ call.result # <<>>

C10_WitnessNone ==
    /\ call.fn = "resolveNameToHandleIds" /\ call.arg = <<"x", "y", "z", "-", "n", "o", "t", "-", "p", "r", "e", "s", "e", "n", "t">>
    /\ cacheInitialized /\ Tokens # {} /\ call.result = <<>>

----------------------------------------------------------------------------
(* Properties of the contact cache *)

\* the step is a tool invocation, not a change of the store or the address
\* book
Invocation == UNCHANGED <<addressBook, storeAvailable>>

\* the index a build over the address book produces, the empty one when the
\* build throws
BuiltIndex(dbs) ==
    IF buildContactCacheThrows(dbs)
    THEN [handleToContact |-> <<>>, nameToHandles |-> <<>>]
    ELSE buildContactCache(dbs)

\* C11 as stated: the build runs at most once, and it runs in the first
\* invocation that calls a resolver operation, never in another one.
C11_FirstResolverCall ==
    [][Invocation =>
         /\ builds' <= 1
         /\ (builds' # builds) <=> (builds = 0 /\ request'.resolverCalls > 0)]_vars

\* C11 amended: the build runs at most once; it runs in the first invocation
\* that calls a resolver with a non-empty argument or is lookup_contact, and
\* not before; no lookup reads the index before it is built; once built, the
\* index is the one that build produced and is never replaced or updated,
\* whatever becomes of the address book.
C11_LazyMemoized ==
    /\ [](/\ builds <= 1
          /\ cacheInitialized <=> builds = 1
          /\ ~cacheInitialized => contactCache = NullMap /\ nameToHandles = NullMap
          /\ request.lookups > 0 => cacheInitialized)
    /\ [][cacheInitialized => UNCHANGED cacheVars]_vars
    /\ [][~Invocation => UNCHANGED cacheVars]_vars
    /\ [][Invocation =>
            /\ (builds' # builds) <=>
                 /\ builds = 0
                 /\ request'.lookups > 0 \/ request'.name = "lookup_contact"
            /\ (builds' # builds) =>
                 /\ contactCache' = BuiltIndex(addressBook).handleToContact
                 /\ nameToHandles' = BuiltIndex(addressBook).nameToHandles]_vars

\* the index built from an address book that held Mom is still in use after
\* the address book has lost its sources
C11_Witness ==
    /\ builds = 1 /\ addressBook = <<>> /\ contactCache # <<>>
    /\ request.name = "read_recent_messages" /\ request.lookups > 0
    /\ Len(response.lines) = 1 /\ response.lines[1].from = <<"M", "o", "m">>

\* further cases of C11: a resolver call with an absent handle builds
\* nothing, and lookup_contact builds without calling a resolver
C11_WitnessNoBuild ==
    /\ request.name = "read_recent_messages" /\ request.resolverCalls > 0
    /\ request.lookups = 0 /\ builds = 0 /\ ~cacheInitialized

C11_WitnessLookupContact ==
    /\ request.name = "lookup_contact" /\ request.resolverCalls = 0
    /\ builds = 1 /\ cacheInitialized /\ sent = <<>>

\* the build fails: no source is discovered, or buildContactCache throws
FailingBuild == addressBook = <<>> \/ buildContactCacheThrows(addressBook)

\* C12 as stated: after a failing build resolveHandleToName returns every
\* input as it is, and resolveNameToHandleIds returns no match.
C12_VerbatimForEvery ==
    (FailingBuild /\ call.fn # "none" /\ call.arg # NULL) =>
      /\ call.fn = "resolveHandleToName" => call.result = call.arg
      /\ call.fn = "resolveNameToHandleIds" => call.result = <<>>

\* C12 amended: a failing build leaves an initialized, empty index and the
\* call that ran it has a result; resolveHandleToName then returns every
\* non-empty input as it is ("Unknown" for an empty or absent one) and
\* resolveNameToHandleIds returns no match.
C12_EmptyIndex ==
    (FailingBuild /\ call.fn # "none") =>
      /\ ~Falsy(call.arg) => cacheInitialized
      /\ cacheInitialized => contactCache = <<>> /\ nameToHandles = <<>>
      /\ call.fn = "resolveHandleToName" =>
           call.result = IF Falsy(call.arg) THEN Unknown ELSE call.arg
      /\ call.fn = "resolveNameToHandleIds" => call.result = <<>>

\* the build throws after Mom's number was read, and Mom's number comes back
\* as it was given
C12_Witness ==
    /\ Len(addressBook) = 2
    /\ addressBook[1].opens /\ addressBook[1].phoneQueryOk /\ ~addressBook[1].closes
    /\ addressBook[1].phoneRows = <<PhoneRowOf(RecMom, MomsNumber)>>
    /\ cacheInitialized /\ contactCache = <<>>
    /\ call.fn = "resolveHandleToName" /\ call.arg = MomsNumber
    /\ call.result = MomsNumber

\* further cases of C12: no source at all, and a name looked up after a
\* build that threw in its second snapshot
C12_WitnessNoSource ==
    /\ addressBook = <<>> /\ cacheInitialized /\ nameToHandles = <<>>
    /\ call.fn = "resolveNameToHandleIds" /\ call.arg = <<"M", "o", "m">>
    /\ call.result = <<>>

C12_WitnessSecondThrows ==
    /\ Len(addressBook) = 2 /\ addressBook[1].closes /\ ~addressBook[2].closes
    /\ addressBook[1].phoneRows # <<>>
    /\ cacheInitialized /\ nameToHandles = <<>>
    /\ call.fn = "resolveNameToHandleIds" /\ call.arg = <<"M", "o", "m">>
    /\ call.result = <<>>

----------------------------------------------------------------------------
(* Properties of the index *)

\* the tokens indexContactName enters a row under
TokensOfRow(row) ==
    { ToLowerCase(buildDisplayName(row)),
      ToLowerCase(Trim(OrEmpty(row.ZFIRSTNAME))),
      ToLowerCase(Trim(OrEmpty(row.ZNICKNAME))),
      ToLowerCase(Trim(OrEmpty(row.ZORGANIZATION))) } \ { <<>> }

\* C13: after a build every handle in a handle set of nameToHandles is a key
\* of handleToContact; the keys are the handles of the rows that have a
\* handle and a display name, and the tokens and their handle sets are those
\* of these rows, so a row without a handle or without a display name adds
\* nothing to either map.
C13_IndexInvariant ==
    cacheInitialized =>
      LET rows == Indexed(addressBook)
      IN  /\ \A t \in Tokens : HandlesOf(t) \subseteq MapKeys(contactCache)
          /\ MapKeys(contactCache) = { rows[i].handle : i \in 1..Len(rows) }
          /\ Tokens = UNION { TokensOfRow(rows[i].row) : i \in 1..Len(rows) }
          /\ \A t \in Tokens :
               /\ HandlesOf(t) # {}
               /\ HandlesOf(t) = { rows[i].handle :
                                     i \in { j \in 1..Len(rows) :
                                               t \in TokensOfRow(rows[j].row) } }

\* a number too short, a record without a name and Mom's number are read;
\* only Mom is in the maps
C13_Witness ==
    /\ cacheInitialized /\ Len(addressBook) = 1
    /\ addressBook[1].phoneRows =
         <<PhoneRowOf(RecAcme, <<"1", "2", "3">>), PhoneRowOf(RecMom, MomsNumber)>>
    /\ addressBook[1].emailRows =
         <<EmailRowOf(RecBlank, <<"m", "o", "m", "@", "x", ".", "c", "o", "m">>)>>
    /\ MapKeys(contactCache) = { MomsNumber }
    /\ Tokens = { <<"m", "o", "m">> }
    /\ HandlesOf(<<"m", "o", "m">>) = { MomsNumber }

\* a further case of C13: a contact with a nickname and an organization is
\* found under three tokens, each holding its handle
C13_WitnessTokens ==
    /\ cacheInitialized /\ Len(addressBook) = 1
    /\ addressBook[1].phoneRows = <<PhoneRowOf(RecAlice, OtherNumber)>>
    /\ addressBook[1].emailRows = <<>>
    /\ Cardinality(Tokens) = 3
    /\ \A t \in Tokens : HandlesOf(t) = MapKeys(contactCache)

\* C14: handleToContact holds one contact per handle, that of the row
\* scanned last among the rows entered under the handle: snapshots in
\* discovery order, the phone rows of a snapshot before its e-mail rows.
C14_LastWriterWins ==
    cacheInitialized =>
      LET rows == Indexed(addressBook)
      IN  /\ \A i, j \in 1..Len(contactCache) :
                contactCache[i].key = contactCache[j].key => i = j
          /\ \A h \in MapKeys(contactCache) :
               LET same == { i \in 1..Len(rows) : rows[i].handle = h }
                   last == CHOOSE i \in same : \A j \in same : j <= i
               IN  /\ same # {}
                   /\ MapGet(contactCache, h) =
                        ContactOf(rows[last].row, buildDisplayName(rows[last].row))

\* Mom's number is in two snapshots, under Mom in the first and under Al in
\* the second: the contact stored is Al
C14_Witness ==
    /\ cacheInitialized /\ Len(addressBook) = 2
    /\ addressBook[1].opens /\ addressBook[1].phoneQueryOk /\ addressBook[1].closes
    /\ addressBook[1].phoneRows = <<PhoneRowOf(RecMom, MomsNumber)>>
    /\ addressBook[2].phoneRows = <<PhoneRowOf(RecAl, MomsNumberWritten)>>
    /\ addressBook[2].closes
    /\ MapHas(contactCache, MomsNumber)
    /\ MapGet(contactCache, MomsNumber).displayName = <<"A", "l">>

\* further cases of C14: the same handle in a phone row and in an e-mail row
\* of one snapshot, and twice among the phone rows of one snapshot
C14_WitnessEmailAfterPhone ==
    /\ cacheInitialized /\ Len(addressBook) = 1
    /\ addressBook[1].phoneRows = <<PhoneRowOf(RecAl, MomsNumberWritten)>>
    /\ addressBook[1].emailRows = <<EmailRowOf(RecMom, MomsNumber)>>
    /\ MapKeys(contactCache) = { MomsNumber }
    /\ MapGet(contactCache, MomsNumber).displayName = <<"M", "o", "m">>

C14_WitnessSameQuery ==
    /\ cacheInitialized /\ Len(addressBook) = 1
    /\ addressBook[1].phoneRows =
         <<PhoneRowOf(RecAl, MomsNumberWritten), PhoneRowOf(RecMom, MomsNumber)>>
    /\ MapGet(contactCache, MomsNumber).displayName = <<"M", "o", "m">>

\* the snapshots that open and answer both queries
ReadInFull(dbs) ==
    SelectSeq(dbs, LAMBDA db : db.opens /\ db.phoneQueryOk /\ db.emailQueryOk)

\* C15 as stated: a snapshot that fails to open, or whose phone query or
\* e-mail query fails, contributes nothing to either map: the index is the
\* one built from the other snapshots alone.
C15_FailuresIsolated ==
    (cacheInitialized /\ ~buildContactCacheThrows(addressBook)) =>
      /\ contactCache = buildContactCache(ReadInFull(addressBook)).handleToContact
      /\ nameToHandles = buildContactCache(ReadInFull(addressBook)).nameToHandles

\* the e-mail query of the first snapshot fails after Mom's phone row was
\* entered, and the second snapshot has nothing: Mom is in the index
C15_Witness ==
    /\ cacheInitialized /\ Len(addressBook) = 2
    /\ addressBook[1].opens /\ addressBook[1].phoneQueryOk
    /\ ~addressBook[1].emailQueryOk /\ addressBook[1].closes
    /\ addressBook[1].phoneRows = <<PhoneRowOf(RecMom, MomsNumber)>>
    /\ addressBook[2].phoneRows = <<>> /\ addressBook[2].emailRows = <<>>
    /\ MapKeys(contactCache) = { MomsNumber }
    /\ Tokens = { <<"m", "o", "m">> }

----------------------------------------------------------------------------
(* Properties of the tools *)

\* the tools that read chat.db in every invocation
StoreTools ==
    { "read_recent_messages", "search_messages", "get_conversation",
      "list_recent_chats", "get_attachment" }

\* the tools that run osascript
SendingTools == { "send_message", "react_to_message" }

\* the error result of an invocation that could not open chat.db
OpenFailureResult ==
    [isError |-> TRUE, text |-> <<"Error: ">> \o OpenFailure, lines |-> <<>>,
     target |-> NULL]

\* C16: a tool that needs the store tries to open it in every invocation;
\* when the store cannot be opened the invocation ends with the error result
\* that names the open failure and Full Disk Access, and when it can, with a
\* result that is not an error, whatever the blobs, the names and handles
\* and the snapshots are like; an error result comes from nothing but the
\* open failure, an unknown tool name or a failed run of osascript.
C16_StoreUnavailableReported ==
    /\ [](request.name \in StoreTools =>
            /\ request.opened \in { "yes", "failed" }
            /\ request.opened = "failed" => response = OpenFailureResult
            /\ request.opened = "yes" => ~response.isError)
    /\ [](response.isError =>
            \/ request.opened = "failed" /\ response = OpenFailureResult
            \/ request.name = "unknown"
            \/ /\ request.name \in SendingTools
               /\ request.args.confirm = "true"
               /\ response.text[2] \in { "Failed to send message: ",
                                         "Failed to send reaction: " })
    /\ [][(Invocation /\ request'.name \in StoreTools) =>
            (request'.opened = "failed" <=> ~storeAvailable)]_vars

\* get_conversation is invoked while chat.db cannot be opened
C16_Witness ==
    /\ request.name = "get_conversation" /\ request.opened = "failed"
    /\ ~storeAvailable
    /\ response.isError
    /\ response.text[4] =
         ". Make sure you've granted Full Disk Access to Terminal/Claude Code."

\* a further case of C16: a malformed body, a sender no contact is found
\* for and a snapshot that cannot be opened, and the result is the one
\* message that has a text, under the raw handle
C16_WitnessNoError ==
    /\ request.name = "read_recent_messages" /\ request.opened = "yes"
    /\ Len(addressBook) = 2 /\ ~addressBook[1].opens
    /\ cacheInitialized /\ contactCache # <<>>
    /\ ~response.isError
    /\ response.lines = <<Line(StrangersHandle, <<72, 105>>, FALSE)>>

\* the result that asks for the confirmation
NotSentResult ==
    /\ ~response.isError
    /\ response.text # <<>>
    /\ response.text[1] =
         IF request.name = "send_message"
         THEN "Message NOT sent. Confirmation required.\n\nTo: "
         ELSE "Reaction NOT sent. Confirmation required.\n\nMessage ID: "

\* C17 as stated: osascript runs only in an invocation whose confirm
\* argument is true, and an invocation of send_message or react_to_message
\* with confirm false or missing returns the "NOT sent. Confirmation
\* required" result and sends nothing.
C17_AlwaysNotSent ==
    /\ [][sent' # sent =>
            request'.name \in SendingTools /\ request'.args.confirm = "true"]_vars
    /\ []((request.name \in SendingTools /\ request.args.confirm # "true") =>
            NotSentResult)

\* C17 amended: osascript runs only in an invocation of send_message or
\* react_to_message whose confirm argument is true, once; an invocation with
\* confirm false or missing sends nothing, and returns the "NOT sent.
\* Confirmation required" result unless it is a send_message to a name that
\* resolves while chat.db cannot be opened, which returns the open failure.
C17_ConfirmationGate ==
    /\ [][sent' # sent =>
            /\ request'.name \in SendingTools
            /\ request'.args.confirm = "true"
            /\ Len(sent') = Len(sent) + 1
            /\ SubSeq(sent', 1, Len(sent)) = sent]_vars
    /\ [][(Invocation /\ request'.name \in SendingTools
                      /\ request'.args.confirm # "true") => sent' = sent]_vars
    /\ []((request.name \in SendingTools /\ request.args.confirm # "true") =>
            \/ NotSentResult
            \/ /\ request.name = "send_message"
               /\ request.opened = "failed"
               /\ request.lookups > 0
               /\ response = OpenFailureResult)
    /\ []((request.name \in SendingTools /\ request.args.confirm # "true"
                                         /\ request.opened # "failed") =>
            NotSentResult)

\* send_message to Mom without confirm: the handle is resolved, the result
\* asks for the confirmation, nothing was sent
C17_Witness ==
    /\ request.name = "send_message" /\ request.args.confirm = "missing"
    /\ request.args.target = <<"M", "o", "m">>
    /\ request.opened = "yes"
    /\ NotSentResult
    /\ response.target = MomsAddress
    /\ sent = <<>>

\* further cases of C17: a message that was sent, a reaction that was not
C17_WitnessSent ==
    /\ request.name = "send_message" /\ request.args.confirm = "true"
    /\ ~response.isError
    /\ sent = <<Osascript("send", MomsHandle)>>

C17_WitnessReaction ==
    /\ request.name = "react_to_message" /\ request.args.confirm = "false"
    /\ NotSentResult /\ sent = <<>>

----------------------------------------------------------------------------
(* Properties of the delimiter search and of the length field *)

\* the bytes of the row being decoded
TheBuffer == Assemble(layout)

\* the row is a Buffer and the decoder has been applied to it
Decoded == op = "extracted" /\ layout.kind = "buffer"

\* the offset of the byte after the first marker, -1 without a marker
AfterMarker(buf) ==
    IF IndexOf(buf, marker) = -1 THEN -1 ELSE IndexOf(buf, marker) + Len(marker)

\* the offsets of the n bytes after the marker that lie in the buffer
WindowOffsets(buf, n) ==
    { p \in AfterMarker(buf)..(AfterMarker(buf) + n - 1) : p < Len(buf) }

\* C18 as stated: when the delimiter byte does not occur among the 12 bytes
\* after the marker (or before the end of a shorter buffer), decode returns
\* absent, whatever follows.
C18_BoundedWindow ==
    ( /\ Decoded /\ AfterMarker(TheBuffer) # -1
      /\ \A p \in WindowOffsets(TheBuffer, SearchWindow) :
           At(TheBuffer, p) # Delimiter )
      => decoded = NullText

\* twelve header bytes without a delimiter, the delimiter as the thirteenth
\* byte after the marker, and the payload behind it is returned
C18_Witness ==
    /\ Decoded /\ layout.pre = <<>> /\ layout.hasMarker /\ layout.hasDelim
    /\ layout.header = Fill(SearchWindow, 1)
    /\ layout.field = <<1>> /\ layout.payload = <<98>> /\ layout.trail = <<>>
    /\ decoded = <<98>>

\* a further case of C18: the delimiter as the fourteenth byte after the
\* marker is not found
C18_WitnessOutOfReach ==
    /\ Decoded /\ layout.pre = <<>> /\ layout.hasMarker /\ layout.hasDelim
    /\ layout.header = Fill(SearchWindow + 1, 1)
    /\ layout.field = <<1>> /\ layout.payload = <<98>>
    /\ decoded = NullText

\* the offset of the first length byte: the one after the delimiter the
\* search stops at, -1 when the search finds none
LengthOffset(buf) ==
    IF AfterMarker(buf) = -1 THEN -1
    ELSE LET pos == ScanForDelimiter(buf, AfterMarker(buf))
         IN  IF pos >= Len(buf) \/ At(buf, pos) # Delimiter THEN -1 ELSE pos + 1

\* the reads of buf[...] and buf.slice once the marker is found, as spans
\* <<first offset, last offset>>, each read under the test that guards it
SpansRead(buf) ==
    IF AfterMarker(buf) = -1 THEN {}
    ELSE
      LET start == AfterMarker(buf)
          searchEnd == Min(start + SearchWindow, Len(buf))
          pos == ScanForDelimiter(buf, start)
          scanned == IF start < searchEnd THEN { <<start, Min(pos, searchEnd - 1)>> }
                     ELSE {}
          tested == IF pos >= Len(buf) THEN {} ELSE { <<pos, pos>> }
      IN  IF pos >= Len(buf) \/ At(buf, pos) # Delimiter \/ pos + 1 >= Len(buf)
          THEN scanned \cup tested
          ELSE
            LET p == pos + 2
                first == At(buf, pos + 1)
                field == ReadLength(buf, pos + 1)
                lengthBytes ==
                  { <<pos + 1, pos + 1>> }
                    \cup (IF first = Tag16 /\ p + 2 <= Len(buf) THEN { <<p, p + 1>> }
                          ELSE IF first = Tag32 /\ p + 4 <= Len(buf) THEN { <<p, p + 3>> }
                          ELSE {})
                sliced ==
                  IF field.textLen <= 0 \/ field.pos + field.textLen > Len(buf)
                  THEN {}
                  ELSE { <<field.pos, field.pos + field.textLen - 1>> }
            IN  scanned \cup tested \cup lengthBytes \cup sliced

\* C19: decode reads no offset outside the buffer; it returns absent when
\* the buffer ends right after the delimiter, when a 0x81 / 0x82 tag is
\* followed by fewer than 2 / 4 bytes, when the decoded length is zero or
\* negative, and when fewer payload bytes remain than the decoded length;
\* a text it returns is the decoding of exactly the declared number of bytes,
\* all inside the buffer.
C19_NeverPastTheBuffer ==
    Decoded =>
      LET buf == TheBuffer
          at == LengthOffset(buf)
          field == ReadLength(buf, at)
      IN  /\ \A span \in SpansRead(buf) :
               0 <= span[1] /\ span[1] <= span[2] /\ span[2] < Len(buf)
          /\ at = Len(buf) => decoded = NullText
          /\ (at # -1 /\ at < Len(buf)) =>
               /\ (At(buf, at) = Tag16 /\ Len(buf) - (at + 1) < 2) => decoded = NullText
               /\ (At(buf, at) = Tag32 /\ Len(buf) - (at + 1) < 4) => decoded = NullText
               /\ field.textLen <= 0 => decoded = NullText
               /\ Len(buf) - field.pos < field.textLen => decoded = NullText
          /\ decoded # NullText =>
               /\ at # -1 /\ at < Len(buf)
               /\ field.textLen > 0
               /\ field.pos + field.textLen <= Len(buf)
               /\ decoded = Utf8ToString(SubSeq(buf, field.pos + 1,
                                                 field.pos + field.textLen))

\* a two-byte length of 257 with one payload byte missing: absent
C19_Witness ==
    /\ Decoded /\ layout.form = "two" /\ layout.declared = 257
    /\ Len(layout.payload) = 256 /\ layout.trail = <<>>
    /\ LengthOffset(TheBuffer) # -1
    /\ decoded = NullText

\* further cases of C19: the buffer ends with the delimiter; a 0x81 tag with
\* one byte behind it; a 0x82 tag with three; a negative four-byte length
C19_WitnessEndsAfterDelimiter ==
    /\ Decoded /\ LengthOffset(TheBuffer) = Len(TheBuffer) /\ decoded = NullText

C19_WitnessShortTag16 ==
    /\ Decoded /\ layout.field = <<Tag16, 0>> /\ layout.payload = <<>>
    /\ LengthOffset(TheBuffer) = Len(TheBuffer) - 2
    /\ decoded = NullText

C19_WitnessShortTag32 ==
    /\ Decoded /\ layout.field = <<Tag32>> /\ Len(layout.payload) = 3
    /\ LengthOffset(TheBuffer) = Len(TheBuffer) - 4
    /\ decoded = NullText

C19_WitnessNegative ==
    /\ Decoded /\ layout.field = <<Tag32, 255, 255, 255, 255>>
    /\ ReadLength(TheBuffer, LengthOffset(TheBuffer)).textLen = -1
    /\ decoded = NullText

\* C20 as stated: a first length byte from 0x83 to 0xFF is an unrecognized
\* tag: decode returns absent and never takes the byte for a length.
C20_UnknownTagAbsent ==
    ( /\ Decoded
      /\ LengthOffset(TheBuffer) # -1 /\ LengthOffset(TheBuffer) < Len(TheBuffer)
      /\ At(TheBuffer, LengthOffset(TheBuffer)) > Tag32 )
      => decoded = NullText

\* the length byte is 0x83 and 131 payload bytes follow: they are returned
C20_Witness ==
    /\ Decoded /\ layout.pre = <<>> /\ layout.header = ObservedHeader
    /\ layout.field = <<131>> /\ Len(layout.payload) = 131 /\ layout.trail = <<>>
    /\ decoded = layout.payload

\* a further case of C20: 0xFF with 254 payload bytes is absent, being cut
\* short
C20_WitnessCutShort ==
    /\ Decoded /\ layout.field = <<255>> /\ Len(layout.payload) = 254
    /\ layout.trail = <<>>
    /\ decoded = NullText

----------------------------------------------------------------------------
(* Properties of the send target and of name lookups *)

\* the handles chat.db holds in some invocation
StoreHandles == UNION { Elements(handles) : handles \in HandleLists }

\* C21 as stated: in every confirmed send_message invocation the target
\* passed to osascript is the input when the input looks like a phone number
\* or an e-mail address, and otherwise a handle of chat.db whose normalized
\* form the index resolved from the given name; a name that resolves to no
\* handle is never passed on.
C21_ResolvedTarget ==
    [][(sent' # sent /\ request'.name = "send_message") =>
         LET to == request'.args.target
             target == sent'[Len(sent')].target
         IN  IF LooksLikePhoneOrEmail(to) THEN target = Sanitize(to)
             ELSE /\ target \in StoreHandles
                  /\ SetHas(resolveNameToHandleIds(nameToHandles', to),
                            NormalizedHandle(target))]_vars

\* a confirmed send_message to "zed", a name no contact carries: osascript
\* is run with "zed" as the participant
C21_Witness ==
    /\ request.name = "send_message" /\ request.args.confirm = "true"
    /\ request.args.target = <<"z", "e", "d">>
    /\ request.lookups > 0
    /\ ~response.isError
    /\ sent = <<Osascript("send", <<"z", "e", "d">>)>>

\* further cases of C21: Mom resolves but chat.db holds none of her handles,
\* and the name goes out; Mom resolves to a handle of chat.db, which goes out
C21_WitnessNoStoreHandle ==
    /\ request.name = "send_message" /\ request.args.confirm = "true"
    /\ request.args.target = <<"M", "o", "m">>
    /\ request.opened = "yes" /\ contactCache # <<>>
    /\ sent = <<Osascript("send", <<"M", "o", "m">>)>>

C21_WitnessResolved ==
    /\ request.name = "send_message" /\ request.args.confirm = "true"
    /\ request.args.target = <<"M", "o", "m">>
    /\ request.opened = "yes"
    /\ sent = <<Osascript("send", MomsAddress)>>

\* the tokens a stored contact is found under
TokensOfContact(contact) ==
    { ToLowerCase(contact.displayName),
      ToLowerCase(Trim(contact.firstName)),
      ToLowerCase(Trim(contact.nickname)),
      ToLowerCase(Trim(contact.organization)) } \ { <<>> }

\* C22 as stated: after a build, for every token t of nameToHandles and
\* every handle h in its set, the contact stored under h has t among its own
\* tokens, also when h occurs under several contacts.
C22_MapsAgree ==
    cacheInitialized =>
      \A t \in Tokens : \A h \in HandlesOf(t) :
         /\ MapHas(contactCache, h)
         /\ t \in TokensOfContact(MapGet(contactCache, h))

\* Mom's number is in two snapshots, under Mom and then under Al: "mom"
\* still leads to the number, and the number to Al
C22_Witness ==
    /\ cacheInitialized /\ Len(addressBook) = 2
    /\ addressBook[1].opens /\ addressBook[1].phoneQueryOk /\ addressBook[1].closes
    /\ addressBook[1].phoneRows = <<PhoneRowOf(RecMom, MomsNumber)>>
    /\ addressBook[2].phoneRows = <<PhoneRowOf(RecAl, MomsNumberWritten)>>
    /\ addressBook[2].closes
    /\ <<"m", "o", "m">> \in Tokens
    /\ HandlesOf(<<"m", "o", "m">>) = { MomsNumber }
    /\ MapGet(contactCache, MomsNumber).displayName = <<"A", "l">>

\* a further case of C22: every handle under one contact only, and the
\* maps agree
C22_WitnessAgree ==
    /\ cacheInitialized /\ Len(addressBook) = 1
    /\ addressBook[1].phoneRows =
         <<PhoneRowOf(RecAlice, OtherNumber), PhoneRowOf(RecMom, MomsNumber)>>
    /\ Cardinality(Tokens) = 4
    /\ \A t \in Tokens : \A h \in HandlesOf(t) :
         t \in TokensOfContact(MapGet(contactCache, h))

\* C23 as stated: resolveNameToHandleIds returns no handle for a query that
\* is empty after trimming, the empty string and a string of blanks alike.
C23_BlankQueryEmpty ==
    ( /\ call.fn = "resolveNameToHandleIds"
      /\ call.arg # NULL /\ Trim(call.arg) = <<>> )
      => call.result = <<>>

\* a query of one blank against an index holding Mom and Al's numbers:
\* every handle of the index comes back
C23_Witness ==
    /\ call.fn = "resolveNameToHandleIds" /\ call.arg = <<" ">>
    /\ cacheInitialized /\ contactCache # <<>>
    /\ Elements(call.result) = MapKeys(contactCache)
    /\ MomsNumber \in Elements(call.result)

\* a further case of C23: the empty string returns nothing
C23_WitnessEmptyString ==
    /\ call.fn = "resolveNameToHandleIds" /\ call.arg = <<>>
    /\ Len(addressBook) = 1 /\ addressBook[1].phoneRows # <<>>
    /\ call.result = <<>>

\* a further case of C23, among the tools: a confirmed send_message to one
\* blank goes to a handle of chat.db that belongs to Mom
C23_WitnessSendBlank ==
    /\ request.name = "send_message" /\ request.args.confirm = "true"
    /\ request.args.target = <<" ">>
    /\ ~response.isError
    /\ sent = <<Osascript("send", MomsAddress)>>

====
